---- MODULE Spec2Model ----
(***************************************************************************)
(* A model of DirectiveProvider (src/core/directives/directive_provider.ts)*)
(* of ng-metadata: the compilation of a directive/component descriptor     *)
(* into a link implementation (createFromType, _createLink), the link      *)
(* functions it builds (preLink, postLink, the $destroy handler) and the   *)
(* children-change scheduler that _setQuery installs on a controller       *)
(* (_ngOnChildrenChanged and the task it hands to scope.$evalAsync).       *)
(*                                                                         *)
(* The host runtime (angular) is the environment: it compiles the type     *)
(* once, links every matched node (pre-link when the link implementation   *)
(* has one, then post-link), drains the $evalAsync queue in FIFO order and *)
(* broadcasts $destroy once per scope.  Javascript is single threaded: a   *)
(* link function or a destroy handler is one atomic action; a deferred     *)
(* task is split at its resolver/callback boundaries, which is where user  *)
(* code can call the notifier of a controller again.                       *)
(***************************************************************************)
EXTENDS Integers, Sequences, FiniteSets, TLC

\* ------------------------------------------------------------ bounds

\* controller instances (matched DOM nodes) of the compiled type
NumInst == 2
\* longest queries map of a descriptor
MaxQueries == 2
\* most required controllers of a descriptor
MaxRequire == 1
\* most inputs (and attrs) a directive descriptor declares
MaxBindings == 1
\* most host entries of each class (static, binding, listener)
MaxHost == 1
\* most host events dispatched on the nodes
MaxEvents == 2
MaxCalls == 2
MaxDecl == 2

Instances == 1 .. NumInst

\* ------------------------------------------------------------ state

VARIABLES
  meta,        \* the resolved descriptor of the type and its lifecycle hooks
  ddo,         \* what createFromType produced for it
  live,        \* the instances the host runtime links
  phase,       \* per instance: where it is in the link state machine
  ctrl,        \* per instance: the controller's fields written by the provider
  closure,     \* per instance: what postLink's closure keeps for $destroy
  trace,       \* per instance: what the link functions and the destroy handler did
  asyncQueue,  \* the tasks handed to scope.$evalAsync, oldest first
  task,        \* the $evalAsync task being executed (or the last one executed)
  lastOp,      \* the operation of the last step and its outcome
  host,        \* metadata.host: the host mapping of the descriptor
  applyAsyncQueue,  \* the tasks handed to scope.$applyAsync, oldest first
  events,      \* the host events dispatched so far and what became of them
  legacy,      \* metadata.legacy: the legacy mapping of the descriptor
  statics,     \* which of the static methods compile and link the type defines
  returned     \* the objects the directive factory has returned, oldest first

vars ==
  <<meta, ddo, live, phase, ctrl, closure, trace, asyncQueue, task, lastOp,
    host, applyAsyncQueue, events, legacy, statics, returned>>

\* ------------------------------------------------------------ descriptors

FromView == "FromView"
FromContent == "FromContent"
\* a value of the notifier's `type` argument outside the enum
OtherKind == "Other"
ChildrenChangeHook == {FromView, FromContent}

ngOnInit == "ngOnInit"
ngOnDestroy == "ngOnDestroy"
ngAfterViewInit == "ngAfterViewInit"
ngAfterViewChecked == "ngAfterViewChecked"
ngAfterContentInit == "ngAfterContentInit"
ngAfterContentChecked == "ngAfterContentChecked"

LifeCycleHooks ==
  {ngOnInit, ngOnDestroy, ngAfterViewInit, ngAfterViewChecked,
   ngAfterContentInit, ngAfterContentChecked}

QueryTypes == {"ViewChild", "ViewChildren", "ContentChild", "ContentChildren"}

\* The queries maps the model draws from: up to MaxQueries entries in key
\* order, singular queries at the odd places and plural ones at the even places.
QueryChoices ==
  UNION { { q \in [1 .. n -> QueryTypes] :
              \A p \in 1 .. n :
                 (p % 2 = 1) <=> (q[p] \in {"ViewChild", "ContentChild"}) } :
          n \in 0 .. MaxQueries }

\* callback strings of host listeners: go($event), go($event,$event.t),
\* go(foo), go() and go
GoEvent == <<"g", "o", "(", "$", "e", "v", "e", "n", "t", ")">>
GoEventTarget ==
  <<"g", "o", "(", "$", "e", "v", "e", "n", "t", ",",
    "$", "e", "v", "e", "n", "t", ".", "t", ")">>
GoFoo == <<"g", "o", "(", "f", "o", "o", ")">>
GoNothing == <<"g", "o", "(", ")">>
GoBare == <<"g", "o">>

CbStrings == {GoEvent, GoEventTarget, GoFoo, GoNothing, GoBare}

\* A descriptor as createFromType reads it: metadata (component or directive,
\* template, templateUrl, legacy.transclude, host, queries, inputs/attrs),
\* the hooks the type implements and the required controllers.
\* host: hasHost says whether a host mapping is supplied; hostN is the number
\* of its entries of each class; listener is the callback string of its
\* listener entries.  bindings: the number of inputs and of attrs of a
\* directive.  inputs, attrs, outputs: the binding declarations of a
\* component, none unless a specification says otherwise.
DescriptorSpace(hookSets) ==
  [ component   : BOOLEAN,
    template    : BOOLEAN,
    templateUrl : BOOLEAN,
    transclude  : BOOLEAN,
    hasHost     : BOOLEAN,
    hostN       : 0 .. MaxHost,
    queries     : QueryChoices,
    hooks       : hookSets,
    requires    : 0 .. MaxRequire,
    bindings    : 0 .. MaxBindings,
    listener    : CbStrings,
    inputs      : {<<>>},
    attrs       : {<<>>},
    outputs     : {<<>>} ]

\* ------------------------------------------------------------ strings

\* A string is the sequence of its characters.  \w of a regular expression:
WordChars ==
  {"a", "b", "c", "d", "e", "f", "g", "h", "i", "j", "k", "l", "m", "n", "o",
   "p", "q", "r", "s", "t", "u", "v", "w", "x", "y", "z", "C", "N", "X", "_",
   "0", "1", "2", "3"}

\* str.startsWith(prefix)
StartsWith(str, prefix) ==
  Len(str) >= Len(prefix) /\ SubSeq(str, 1, Len(prefix)) = prefix

\* str.split(sep) for a one-character separator
RECURSIVE Split(_, _)
Split(str, sep) ==
  IF \A p \in 1 .. Len(str) : str[p] # sep THEN <<str>>
  ELSE LET at == CHOOSE p \in 1 .. Len(str) :
                   str[p] = sep /\ \A r \in 1 .. p - 1 : str[r] # sep
       IN  <<SubSeq(str, 1, at - 1)>> \o Split(SubSeq(str, at + 1, Len(str)), sep)

\* str.trim()
RECURSIVE Trim(_)
Trim(str) ==
  IF str # <<>> /\ Head(str) = " " THEN Trim(Tail(str))
  ELSE IF str # <<>> /\ str[Len(str)] = " " THEN Trim(SubSeq(str, 1, Len(str) - 1))
  ELSE str

\* a string map with the entry key: value assigned (a later assignment of a
\* key replaces the earlier one)
Assign(map, key, value) ==
  [k \in DOMAIN map \cup {key} |-> IF k = key THEN value ELSE map[k]]

EmptyMap == [k \in {} |-> <<>>]

\* ------------------------------------------------------------ host processor

\* /^\[.*\]$/
isHostBinding(hostKey) ==
  Len(hostKey) >= 2 /\ hostKey[1] = "[" /\ hostKey[Len(hostKey)] = "]"

\* /^\(.*\)$/
isHostListener(hostKey) ==
  Len(hostKey) >= 2 /\ hostKey[1] = "(" /\ hostKey[Len(hostKey)] = ")"

isStaticHost(hostKey) == ~(isHostBinding(hostKey) \/ isHostListener(hostKey))

\* hostKey.replace( /\[|\]|\(|\)/g, '' )
stripBindingOrListenerBrackets(hostKey) ==
  SelectSeq(hostKey, LAMBDA ch : ch \notin {"[", "]", "(", ")"})

\* /^class./ : the five letters and one more character, whatever it is
HAS_CLASS_REGEX(key) == Len(key) >= 6 /\ SubSeq(key, 1, 5) = <<"c", "l", "a", "s", "s">>

\* /^attr./
HAS_ATTR_REGEX(key) == Len(key) >= 5 /\ SubSeq(key, 1, 4) = <<"a", "t", "t", "r">>

\* the number of word characters a string starts with
RECURSIVE WordPrefix(_)
WordPrefix(str) ==
  IF str # <<>> /\ Head(str) \in WordChars THEN 1 + WordPrefix(Tail(str)) ELSE 0

\* /^(\w+)\(([$\w.,]*)\)$/.exec( cbString ): the position of the opening
\* parenthesis, 0 when the expression does not match (exec returns null)
cbStringMatch(cbString) ==
  LET n == WordPrefix(cbString)
  IN  IF /\ n >= 1
         /\ Len(cbString) >= n + 2
         /\ cbString[n + 1] = "("
         /\ cbString[Len(cbString)] = ")"
         /\ \A p \in n + 2 .. Len(cbString) - 1 :
              cbString[p] \in WordChars \cup {"$", ".", ","}
        THEN n + 1 ELSE 0

\* processHostListenerCallback of a cbString that matches:
\* [cbMethodName, ...arguments], empty arguments filtered out, the others trimmed
processHostListenerCallback(cbString) ==
  LET at   == cbStringMatch(cbString)
      args == SelectSeq(Split(SubSeq(cbString, at + 1, Len(cbString) - 1), ","),
                        LAMBDA argument : argument # <<>>)
  IN  <<SubSeq(cbString, 1, at - 1)>> \o [p \in 1 .. Len(args) |-> Trim(args[p])]

\* what _processHost returns for the empty mapping; result is "undefined"
\* when it returns nothing and "TypeError" when it throws
NoHostProcessed ==
  [result        |-> "ok",
   hostStatic    |-> EmptyMap,
   hostBindings  |-> [classes |-> EmptyMap, attributes |-> EmptyMap,
                      properties |-> EmptyMap],
   hostListeners |-> EmptyMap]

\* the body of the forEach over the host entries and, for a binding, of the
\* reduce over hostBindingsRaw (a binding key keeps its place among the
\* bindings, and the three maps of hostBindings are keyed apart)
processHostEntry(acc, hostKey, hostValue) ==
  LET key == stripBindingOrListenerBrackets(hostKey)
  IN  IF acc.result # "ok" THEN acc
      ELSE IF isStaticHost(hostKey)
        THEN [acc EXCEPT !.hostStatic = Assign(@, key, hostValue)]
      ELSE IF isHostBinding(hostKey)
        THEN IF HAS_CLASS_REGEX(key)
               THEN [acc EXCEPT !.hostBindings.classes =
                       Assign(@, SubSeq(key, 7, Len(key)), hostValue)]
             ELSE IF HAS_ATTR_REGEX(key)
               THEN [acc EXCEPT !.hostBindings.attributes =
                       Assign(@, SubSeq(key, 6, Len(key)), hostValue)]
             ELSE [acc EXCEPT !.hostBindings.properties = Assign(@, key, hostValue)]
      \* destructuring the null of a cbString that does not match
      ELSE IF cbStringMatch(hostValue) = 0 THEN [acc EXCEPT !.result = "TypeError"]
      ELSE [acc EXCEPT !.hostListeners =
              Assign(@, key, processHostListenerCallback(hostValue))]

RECURSIVE processHostEntries(_, _)
processHostEntries(acc, entries) ==
  IF entries = <<>> THEN acc
  ELSE processHostEntries(processHostEntry(acc, Head(entries).key, Head(entries).value),
                          Tail(entries))

\* metadata.host: present or not, and its entries in key order
HostOf(entries) == [present |-> TRUE, entries |-> entries]
UndefinedHost == [present |-> FALSE, entries |-> <<>>]

\* _processHost
processHost(h) ==
  IF ~h.present THEN [NoHostProcessed EXCEPT !.result = "undefined"]
  ELSE processHostEntries(NoHostProcessed, h.entries)

Digit(n) == <<"1", "2", "3">>[n]

\* The host mapping of descriptor m: none, or hostN entries of each class: a
\* static attribute id<n>, a class binding [class.c<n>] and a listener (e<n>)
\* with the callback string of the descriptor.
HostMap(m) ==
  IF ~m.hasHost THEN UndefinedHost
  ELSE HostOf(
         [n \in 1 .. m.hostN |-> [key |-> <<"i", "d", Digit(n)>>, value |-> <<"v">>]]
         \o [n \in 1 .. m.hostN |->
               [key   |-> <<"[", "c", "l", "a", "s", "s", ".", "c", Digit(n), "]">>,
                value |-> <<"p">>]]
         \o [n \in 1 .. m.hostN |->
               [key |-> <<"(", "e", Digit(n), ")">>, value |-> m.listener]])

\* ------------------------------------------------------------ compilation

HasAny(m, hs) == (m.hooks \cap hs) # {}

\* _createRequires gives the DDO require list [directiveName, ...required]; the
\* host runtime answers it with the controller tuple [own, ...requiredCtrls].
\* The own controller is 0, the n-th required controller is 100 + n.
ControllerTuple(m) == <<0>> \o [n \in 1 .. m.requires |-> 100 + n]

\* Object.keys(requireMap): the n-th name is n.
requiredCtrlVarNames(m) == [n \in 1 .. m.requires |-> n]

\* _createLink without the test of the checked hooks
createLinkError_NoCheckedTest(m, h) ==
  IF processHost(h).result = "TypeError"
    THEN "HostListenerTypeError"
  ELSE IF m.component
    THEN IF HasAny(m, {ngAfterContentInit, ngAfterContentChecked}) /\ ~m.transclude
           THEN "ContentHookWithoutTransclusion"
           ELSE "none"
  ELSE IF HasAny(m, {ngAfterViewInit, ngAfterViewChecked})
    THEN "ViewHookOnDirective"
    ELSE "none"

\* _createLink without the test of the view hooks of a directive
createLinkError_NoViewTest(m, h) ==
  IF HasAny(m, {ngAfterContentChecked, ngAfterViewChecked}) /\ Len(m.queries) = 0
    THEN "CheckedHookWithoutQuery"
  ELSE IF processHost(h).result = "TypeError"
    THEN "HostListenerTypeError"
  ELSE IF m.component
    THEN IF HasAny(m, {ngAfterContentInit, ngAfterContentChecked}) /\ ~m.transclude
           THEN "ContentHookWithoutTransclusion"
           ELSE "none"
  ELSE "none"

\* _createLink without the test of legacy.transclude
createLinkError_NoTranscludeTest(m, h) ==
  IF HasAny(m, {ngAfterContentChecked, ngAfterViewChecked}) /\ Len(m.queries) = 0
    THEN "CheckedHookWithoutQuery"
  ELSE IF processHost(h).result = "TypeError"
    THEN "HostListenerTypeError"
  ELSE IF m.component
    THEN "none"
  ELSE IF HasAny(m, {ngAfterViewInit, ngAfterViewChecked})
    THEN "ViewHookOnDirective"
    ELSE "none"

\* The checks of _createLink, in the order it makes them; "none" when it
\* returns a link implementation.
createLinkError(m, h) ==
  IF HasAny(m, {ngAfterContentChecked, ngAfterViewChecked}) /\ Len(m.queries) = 0
    THEN "CheckedHookWithoutQuery"
  ELSE IF processHost(h).result = "TypeError"
    THEN "HostListenerTypeError"
  ELSE IF m.component
    THEN IF HasAny(m, {ngAfterContentInit, ngAfterContentChecked}) /\ ~m.transclude
           THEN "ContentHookWithoutTransclusion"
           ELSE "none"
  ELSE IF HasAny(m, {ngAfterViewInit, ngAfterViewChecked})
    THEN "ViewHookOnDirective"
    ELSE "none"

\* _createLink sets type.prototype._ngOnChildrenChanged = noop once the first
\* check has passed and the descriptor has queries.
prototypeNotifier(m) ==
  IF ~(HasAny(m, {ngAfterContentChecked, ngAfterViewChecked}) /\ Len(m.queries) = 0)
       /\ Len(m.queries) > 0
    THEN "noop" ELSE "undefined"

\* isFunction(preLink) ? {pre, post} : postLink
linkHasPre(m) == ngOnInit \in m.hooks

\* A value of a key of a directive definition object, named by where it
\* comes from: the shell, the generated descriptor, the type or the legacy
\* mapping.
Val(from, key) == [from |-> from, key |-> key]

\* Object.assign of one source onto a target
AssignAll(target, source) ==
  [k \in DOMAIN target \cup DOMAIN source |->
     IF k \in DOMAIN source THEN source[k] ELSE target[k]]

\* the callback of the reduce of _extractBindings: name and alias are the
\* first two parts of the declaration, trimmed; the alias defaults to ''
extractBinding(acc, binding, typeSymbol) ==
  LET parts == Split(binding, ":")
      name  == Trim(parts[1])
      alias == IF Len(parts) >= 2 THEN Trim(parts[2]) ELSE <<>>
  IN  Assign(acc, name, <<typeSymbol>> \o alias)

RECURSIVE extractInto(_, _, _)
extractInto(acc, bindings, typeSymbol) ==
  IF bindings = <<>> THEN acc
  ELSE extractInto(extractBinding(acc, Head(bindings), typeSymbol),
                   Tail(bindings), typeSymbol)

\* _extractBindings
extractBindings(bindings, typeSymbol) == extractInto(EmptyMap, bindings, typeSymbol)

\* _createComponentBindings merging the inputs last
createComponentBindings_InputsLast(inputs, attrs, outputs) ==
  AssignAll(AssignAll(AssignAll(EmptyMap, extractBindings(attrs, "@")),
                      extractBindings(outputs, "&")),
            extractBindings(inputs, "="))

\* _createComponentBindings
createComponentBindings(inputs, attrs, outputs) ==
  AssignAll(AssignAll(AssignAll(EmptyMap, extractBindings(inputs, "=")),
                      extractBindings(attrs, "@")),
            extractBindings(outputs, "&"))

MapOf(keys, from) == [k \in keys |-> Val(from, k)]

ddoShell == MapOf({"require", "controller", "link"}, "shell")

basicDDO ==
  AssignAll(MapOf({"controller"}, "type"), MapOf({"require"}, "generated"))

componentSpecificDDO(m) ==
  MapOf({"scope", "bindToController", "controllerAs", "link", "transclude"}
          \cup (IF m.template THEN {"template"} ELSE {})
          \cup (IF m.templateUrl THEN {"templateUrl"} ELSE {}),
        "generated")

directiveSpecificDDO == MapOf({"link"}, "generated")

NoStatics == [compile |-> FALSE, link |-> FALSE]

\* _ddo of createFromType: the basic and the specific descriptor, then the
\* static compile and the static link of the type
generatedDDO(m, st) ==
  LET merged ==
        AssignAll(AssignAll(EmptyMap, basicDDO),
                  IF m.component THEN componentSpecificDDO(m) ELSE directiveSpecificDDO)
      withCompile ==
        IF st.compile THEN Assign(merged, "compile", Val("generated", "compile"))
        ELSE merged
  IN  IF st.link THEN Assign(withCompile, "link", Val("type", "link"))
      ELSE withCompile

\* _createDDO merging the legacy mapping under the generated descriptor
createDDO_LegacyFirst(d, legacyDDO) ==
  AssignAll(AssignAll(AssignAll(EmptyMap, ddoShell), legacyDDO), d)

\* _createDDO: assign({}, _ddoShell, ddo, legacyDDO)
createDDO(d, legacyDDO) ==
  AssignAll(AssignAll(AssignAll(EmptyMap, ddoShell), d), legacyDDO)

\* metadata.legacy of a descriptor that says no more than legacy.transclude
LegacyOf(m) == MapOf(IF m.transclude THEN {"transclude"} ELSE {}, "legacy")

NoDDO == [status |-> "none", error |-> "none", pre |-> FALSE,
          template |-> FALSE, templateUrl |-> FALSE,
          host |-> [NoHostProcessed EXCEPT !.result = "none"],
          obj |-> EmptyMap, bindToController |-> EmptyMap]

\* createFromType taking both template and templateUrl
createFromType_BothTemplates(m, h, lg, st) ==
  IF createLinkError(m, h) # "none"
    THEN [NoDDO EXCEPT !.status = "error", !.error = createLinkError(m, h)]
  ELSE [status |-> "ok", error |-> "none", pre |-> linkHasPre(m),
        template |-> m.component /\ m.template,
        templateUrl |-> m.component /\ m.templateUrl,
        host |-> processHost(h),
        obj |-> createDDO(generatedDDO(m, st), lg),
        bindToController |->
          IF m.component THEN createComponentBindings(m.inputs, m.attrs, m.outputs)
          ELSE EmptyMap]

\* createFromType: the component branch builds the link implementation before
\* it looks at template/templateUrl; the descriptor the factory returns is
\* built once, here.
createFromType(m, h, lg, st) ==
  IF createLinkError(m, h) # "none"
    THEN [NoDDO EXCEPT !.status = "error", !.error = createLinkError(m, h)]
  ELSE IF m.component /\ m.template /\ m.templateUrl
    THEN [NoDDO EXCEPT !.status = "error", !.error = "TemplateAndTemplateUrl"]
  ELSE [status |-> "ok", error |-> "none", pre |-> linkHasPre(m),
        template |-> m.component /\ m.template,
        templateUrl |-> m.component /\ m.templateUrl,
        host |-> processHost(h),
        obj |-> createDDO(generatedDDO(m, st), lg),
        bindToController |->
          IF m.component THEN createComponentBindings(m.inputs, m.attrs, m.outputs)
          ELSE EmptyMap]

\* ------------------------------------------------------------ records

Ev(e, a, n) == [ev |-> e, arg |-> a, n |-> n]

Op(o, i, k, out) == [op |-> o, inst |-> i, kind |-> k, outcome |-> out]

NoTask == [inst |-> 0, kind |-> "none", cbs |-> <<>>, pos |-> 0, ran |-> <<>>]

NewCtrl ==
  [req      |-> <<>>,
   sem      |-> [view |-> FALSE, content |-> FALSE],
   notifier |-> "undefined"]

NoClosure == [handler |-> FALSE, watchers |-> <<>>, observers |-> <<>>, listeners |-> 0]

\* ------------------------------------------------------------ children-change scheduler

\* SEMAPHORE_PROP_NAMES and DOM_RESOLVER_TYPES are keyed alike: view | content
kindOf(type) == IF type = FromView THEN "view" ELSE "content"

\* a task in the $evalAsync queue
Batch(i, k, cbs) == [inst |-> i, kind |-> k, cbs |-> cbs]

\* the notifier without its test of the semaphore
ngOnChildrenChanged_NoGuard(c, q, i, type, cbs) ==
  IF type \notin ChildrenChangeHook
    THEN [c |-> c, q |-> q, out |-> "error"]
  ELSE [c   |-> [c EXCEPT !.sem[kindOf(type)] = TRUE],
        q   |-> Append(q, Batch(i, kindOf(type), cbs)),
        out |-> "armed"]

\* the notifier forgetting to set the semaphore when it arms a batch
ngOnChildrenChanged_NoSet(c, q, i, type, cbs) ==
  IF type \notin ChildrenChangeHook
    THEN [c |-> c, q |-> q, out |-> "error"]
  ELSE IF c.sem[kindOf(type)]
    THEN [c |-> c, q |-> q, out |-> "absorbed"]
  ELSE [c |-> c, q |-> Append(q, Batch(i, kindOf(type), cbs)), out |-> "armed"]

\* the notifier taking every type but FromView for FromContent
ngOnChildrenChanged_ElseContent(c, q, i, type, cbs) ==
  IF c.sem[kindOf(type)]
    THEN [c |-> c, q |-> q, out |-> "absorbed"]
  ELSE [c   |-> [c EXCEPT !.sem[kindOf(type)] = TRUE],
        q   |-> Append(q, Batch(i, kindOf(type), cbs)),
        out |-> "armed"]

\* the notifier handing the callbacks of an absorbed call to the armed batch
ngOnChildrenChanged_MergeAbsorbed(c, q, i, type, cbs) ==
  IF type \notin ChildrenChangeHook
    THEN [c |-> c, q |-> q, out |-> "error"]
  ELSE IF c.sem[kindOf(type)]
    THEN [c   |-> c,
          q   |-> [n \in DOMAIN q |->
                     IF q[n].inst = i /\ q[n].kind = kindOf(type)
                       THEN [q[n] EXCEPT !.cbs = @ \o cbs] ELSE q[n]],
          out |-> "absorbed"]
  ELSE [c   |-> [c EXCEPT !.sem[kindOf(type)] = TRUE],
        q   |-> Append(q, Batch(i, kindOf(type), cbs)),
        out |-> "armed"]

\* The notifier _setQuery installs, called on instance i (controller record c,
\* $evalAsync queue q) with (type, onFirstChangeDoneCb); domResolverCb is
\* always the resolver map of the instance (no caller passes a third argument).
ngOnChildrenChanged(c, q, i, type, cbs) ==
  IF type \notin ChildrenChangeHook
    THEN [c |-> c, q |-> q, out |-> "error"]
  ELSE IF c.sem[kindOf(type)]
    THEN [c |-> c, q |-> q, out |-> "absorbed"]
  ELSE [c   |-> [c EXCEPT !.sem[kindOf(type)] = TRUE],
        q   |-> Append(q, Batch(i, kindOf(type), cbs)),
        out |-> "armed"]

\* ctrl._ngOnChildrenChanged(...): the prototype's noop until _setQuery has
\* run, a TypeError when the type has no queries (nothing defines it).
callNotifier(c, q, i, type, cbs) ==
  IF c.notifier = "installed" THEN ngOnChildrenChanged(c, q, i, type, cbs)
  ELSE IF c.notifier = "noop" THEN [c |-> c, q |-> q, out |-> "noop"]
  ELSE [c |-> c, q |-> q, out |-> "TypeError"]

\* _setQuery: nothing without queries; otherwise both semaphores are reset and
\* the notifier is bound on the instance.
setQuery(c, m) ==
  IF Len(m.queries) = 0 THEN c
  ELSE [c EXCEPT !.sem = [view |-> FALSE, content |-> FALSE],
                 !.notifier = "installed"]

bucketOf(queryType) ==
  IF queryType \in {"ViewChild", "ViewChildren"} THEN "view" ELSE "content"

\* _getOnChildrenResolvers: one resolver per query, pushed in key order into
\* the bucket of its scope.
getOnChildrenResolvers(m, k) ==
  SelectSeq([p \in 1 .. Len(m.queries) |->
               [t |-> "resolver", name |-> m.queries[p], n |-> p]],
            LAMBDA r : bucketOf(r.name) = k)

CallbackItems(cbs) ==
  [p \in 1 .. Len(cbs) |-> [t |-> "cb", name |-> cbs[p], n |-> p]]

\* the task invoking the callbacks before the resolvers
taskProgram_CallbacksFirst(m, b) ==
  CallbackItems(b.cbs) \o getOnChildrenResolvers(m, b.kind)

\* The body of the $evalAsync task after it has cleared the semaphore: every
\* resolver of the kind, then every item of onFirstChangeDoneCb.
taskProgram(m, b) == getOnChildrenResolvers(m, b.kind) \o CallbackItems(b.cbs)

\* the task leaving the semaphore set
taskStart_KeepSemaphore(c, b) == c

\* the task clearing the semaphores of both kinds
taskStart_ClearBoth(c, b) == [c EXCEPT !.sem = [view |-> FALSE, content |-> FALSE]]

\* "turn semaphore On back again": the first statement of the task
taskStart(c, b) == [c EXCEPT !.sem[b.kind] = FALSE]

isFunction(cb) == cb # "undefined"

\* one forEach iteration of the task: a resolver is called, a callback item is
\* called when it is a function
taskRun(ran, item) ==
  IF item.t = "resolver" \/ isFunction(item.name) THEN Append(ran, item) ELSE ran

TaskDone(m, t) == t.pos = Len(taskProgram(m, t))

\* The resolver _resolveChildrenFactory returns: it assigns what the DOM query
\* finds to the controller property, an empty result on a torn-down node, and
\* never throws.
resolveChildren(nodePhase) == IF nodePhase = "destroyed" THEN "empty" ELSE "assigned"

\* what one forEach iteration of the task did
taskStepOutcome(item, nodePhase) ==
  IF item.t = "resolver" THEN resolveChildren(nodePhase)
  ELSE IF isFunction(item.name) THEN "called" ELSE "skipped"

\* ------------------------------------------------------------ link functions

\* _assignRequiredCtrlInstancesToHostCtrl: ctrl[varName] = requiredCtrls[idx]
assignRequiredCtrls(c, names, requiredCtrls) ==
  [c EXCEPT !.req =
     [varName \in {names[idx] : idx \in 1 .. Len(names)} |->
        requiredCtrls[CHOOSE idx \in 1 .. Len(names) : names[idx] = varName]]]

\* a postLink that assigns the required controllers whatever the hooks are
postLinkAssigns_Always(m) == TRUE

\* postLink: "if OnInit implemented don't create controller properties again"
postLinkAssigns(m) == ngOnInit \notin m.hooks

\* _getParentCheckNotifiers(ctrl, requiredCtrls): the notifier callbacks of the
\* controllers that registered interest, taken here as one per required controller
getParentCheckNotifiers(m) == [n \in 1 .. m.requires |-> [kind |-> "notifier", n |-> n]]

Subscriptions(kind, count) == [n \in 1 .. count |-> [kind |-> kind, n |-> n]]

\* the onFirstChangeDoneCb arrays postLink builds; their first item is the
\* value of parentCheckedNotifiers.forEach(...), which is undefined
hookOrUndefined(m, h) == IF h \in m.hooks THEN h ELSE "undefined"
viewCallbacks(m) ==
  <<"undefined", hookOrUndefined(m, ngAfterViewInit), hookOrUndefined(m, ngAfterViewChecked)>>
contentCallbacks(m) ==
  <<"undefined", hookOrUndefined(m, ngAfterContentInit), hookOrUndefined(m, ngAfterContentChecked)>>

\* The state a link function works on: the controller record c, the $evalAsync
\* queue q, the trace tr, the disposables w (watchers) and o (observers), the
\* listeners l attached to the element, whether the $destroy handler is
\* registered, and ok, false once a statement has thrown.
LinkState(i) ==
  [c |-> ctrl[i], q |-> asyncQueue, tr |-> trace[i], w |-> <<>>, o |-> <<>>,
   l |-> 0, handler |-> FALSE, ok |-> TRUE]

Log(L, e) == [L EXCEPT !.tr = Append(@, e)]

Throw(L, what) == [Log(L, Ev("throw", what, 0)) EXCEPT !.ok = FALSE]

\* parentCheckedNotifiers.forEach(cb=>cb())
notifiersForEach(L, m) ==
  [L EXCEPT !.tr = @ \o [n \in 1 .. Len(getParentCheckNotifiers(m)) |->
                           Ev("parentNotifier", "", n)]]

\* ctrl._ngOnChildrenChanged( type, [ parentCheckedNotifiers.forEach(...), ... ] )
schedule(L, m, i, type, cbs) ==
  LET N == notifiersForEach(L, m)
      r == callNotifier(N.c, N.q, i, type, cbs)
  IN  IF r.out = "TypeError" THEN Throw(N, "TypeError")
      ELSE [Log(N, Ev("schedule", type, 0)) EXCEPT !.c = r.c, !.q = r.q]

\* ctrl.hook && ctrl.hook()
invoke(L, m, h) == IF h \in m.hooks THEN Log(L, Ev("hook", h, 0)) ELSE L

\* the component's hooks with the content level first
componentHooks_ContentFirst(L, m, i) ==
  IF Len(m.queries) > 0
    THEN LET C == schedule(L, m, i, FromContent, contentCallbacks(m))
         IN  IF C.ok THEN schedule(C, m, i, FromView, viewCallbacks(m)) ELSE C
    ELSE invoke(invoke(notifiersForEach(L, m), m, ngAfterContentInit), m, ngAfterViewInit)

\* "AfterContentInit/AfterViewInit Hooks" of the component's postLink
componentHooks(L, m, i) ==
  IF Len(m.queries) > 0
    THEN LET V == schedule(L, m, i, FromView, viewCallbacks(m))
         IN  IF V.ok THEN schedule(V, m, i, FromContent, contentCallbacks(m)) ELSE V
    ELSE invoke(invoke(notifiersForEach(L, m), m, ngAfterViewInit), m, ngAfterContentInit)

\* "AfterContent Hooks" of the directive's postLink
directiveHooks(L, m, i) ==
  IF Len(m.queries) > 0
    THEN schedule(L, m, i, FromContent, contentCallbacks(m))
    ELSE invoke(notifiersForEach(L, m), m, ngAfterContentInit)

\* One statement of a post-link function.
LinkStep(L, s, m, i) ==
  IF ~L.ok THEN L
  ELSE CASE s = "assignRequired" ->
              IF postLinkAssigns(m)
                THEN [Log(L, Ev("assignRequired", "", m.requires)) EXCEPT
                        !.c = assignRequiredCtrls(L.c, requiredCtrlVarNames(m),
                                                  Tail(ControllerTuple(m)))]
                ELSE L
         [] s = "directiveBindings" ->
              [Log(L, Ev("directiveBindings", "", m.bindings)) EXCEPT
                 !.w = @ \o Subscriptions("input", m.bindings),
                 !.o = @ \o Subscriptions("attr", m.bindings)]
         [] s = "hostStatic" ->
              \* hostProcessed is undefined when the descriptor has no host
              IF ~m.hasHost THEN Throw(L, "TypeError")
              ELSE Log(L, Ev("hostStatic", "", m.hostN))
         [] s = "hostBindings" ->
              [Log(L, Ev("hostBindings", "", m.hostN)) EXCEPT
                 !.w = @ \o Subscriptions("host", m.hostN)]
         [] s = "hostListeners" ->
              [Log(L, Ev("hostListeners", "", m.hostN)) EXCEPT !.l = m.hostN]
         [] s = "parentNotifiers" ->
              [L EXCEPT !.w = @ \o getParentCheckNotifiers(m)]
         [] s = "setQuery" ->
              [Log(L, Ev("setQuery", "", Len(m.queries))) EXCEPT !.c = setQuery(@, m)]
         [] s = "componentHooks" -> componentHooks(L, m, i)
         [] s = "directiveHooks" -> directiveHooks(L, m, i)
         [] s = "destroyHandler" ->
              [Log(L, Ev("destroyHandler", "", 0)) EXCEPT !.handler = TRUE]

RECURSIVE RunLink(_, _, _, _)
RunLink(L, prog, m, i) ==
  IF prog = <<>> THEN L
  ELSE RunLink(LinkStep(L, Head(prog), m, i), Tail(prog), m, i)

\* the statements of the component's postLink, in order
componentPostLink ==
  <<"assignRequired", "hostStatic", "hostBindings", "hostListeners",
    "parentNotifiers", "setQuery", "componentHooks", "destroyHandler">>

\* a directive's postLink that wires the host before it activates the bindings
directivePostLink_HostFirst ==
  <<"assignRequired", "hostStatic", "hostBindings", "hostListeners",
    "directiveBindings", "parentNotifiers", "setQuery", "directiveHooks",
    "destroyHandler">>

\* the statements of the directive's postLink, in order
directivePostLink ==
  <<"assignRequired", "directiveBindings", "hostStatic", "hostBindings",
    "hostListeners", "parentNotifiers", "setQuery", "directiveHooks",
    "destroyHandler">>

postLink(L, m, i) ==
  RunLink(L, IF m.component THEN componentPostLink ELSE directivePostLink, m, i)

\* _preLinkFnFactory: assign the required controllers, then ctrl.ngOnInit()
preLink(L, m) ==
  Log([Log(L, Ev("assignRequired", "", m.requires)) EXCEPT
         !.c = assignRequiredCtrls(L.c, requiredCtrlVarNames(m),
                                   Tail(ControllerTuple(m)))],
      Ev("hook", ngOnInit, 0))

\* ------------------------------------------------------------ host listeners

ALLOWED_EVENT_NAME == <<"$", "e", "v", "e", "n", "t">>

\* _getHostListenerCbParams: $event is the event, $event.path the value at
\* that path of the event; any other parameter throws
getHostListenerCbParams(evt, eventParams) ==
  IF \E p \in 1 .. Len(eventParams) : ~StartsWith(eventParams[p], ALLOWED_EVENT_NAME)
    THEN [ok |-> FALSE, params |-> <<>>]
    ELSE [ok     |-> TRUE,
          params |-> [p \in 1 .. Len(eventParams) |->
                        [event |-> evt,
                         path  |-> SubSeq(eventParams[p], Len(ALLOWED_EVENT_NAME) + 1,
                                          Len(eventParams[p]))]]]

\* a host event dispatched on the node of instance i
NewEvent(i, name) ==
  [inst |-> i, name |-> name, calls |-> 0, args |-> <<>>, prevented |-> FALSE]

\* the task a listener hands to scope.$applyAsync
ApplyTask(i, evt, cbParams) == [inst |-> i, evt |-> evt, params |-> cbParams]

\* the body of that task: ctrl[methodName](...cbParams), then
\* evt.preventDefault() unless the method returned a truthy value
applyAsyncTask(evs, t, noPreventDefault) ==
  [evs EXCEPT ![t.evt].calls = @ + 1,
              ![t.evt].args = t.params,
              ![t.evt].prevented = @ \/ ~noPreventDefault]

\* a listener calling the method inside the dispatch of the event
hostListener_Sync(evs, q, i, name, cbArray) ==
  LET evt == Len(evs) + 1
      r   == getHostListenerCbParams(evt, Tail(cbArray))
  IN  IF ~r.ok
        THEN [events |-> Append(evs, NewEvent(i, name)), q |-> q,
              out |-> "ListenerParamError"]
        ELSE [events |-> applyAsyncTask(Append(evs, NewEvent(i, name)),
                                        ApplyTask(i, evt, r.params), FALSE),
              q |-> q, out |-> "deferred"]

\* The listener _setHostListeners attaches for cbArray = [methodName,
\* ...methodParams], called with the event number Len(evs) + 1: it resolves
\* the parameters, then defers the call of the method.
hostListener(evs, q, i, name, cbArray) ==
  LET evt == Len(evs) + 1
      r   == getHostListenerCbParams(evt, Tail(cbArray))
  IN  IF ~r.ok
        THEN [events |-> Append(evs, NewEvent(i, name)), q |-> q,
              out |-> "ListenerParamError"]
        ELSE [events |-> Append(evs, NewEvent(i, name)),
              q |-> Append(q, ApplyTask(i, evt, r.params)), out |-> "deferred"]

\* ------------------------------------------------------------ $destroy

disposeEvent(d) ==
  IF d.kind = "notifier" THEN Ev("parentNotifier", "", d.n) ELSE Ev("dispose", d.kind, d.n)

DisposeAll(ds) == [p \in 1 .. Len(ds) |-> disposeEvent(ds[p])]

\* One statement of the handler _setupDestroyHandler registers.
DestroyStep(D, s, m) ==
  CASE s = "ngOnDestroy" ->
         IF ngOnDestroy \in m.hooks
           THEN [D EXCEPT !.tr = Append(@, Ev("hook", ngOnDestroy, 0))] ELSE D
    [] s = "watchers"  -> [D EXCEPT !.tr = @ \o DisposeAll(D.cl.watchers)]
    [] s = "observers" -> [D EXCEPT !.tr = @ \o DisposeAll(D.cl.observers)]
    [] s = "off"       -> [D EXCEPT !.tr = Append(@, Ev("off", "", D.cl.listeners))]

RECURSIVE RunDestroy(_, _, _)
RunDestroy(D, prog, m) ==
  IF prog = <<>> THEN D
  ELSE RunDestroy(DestroyStep(D, Head(prog), m), Tail(prog), m)

\* the statements of the $destroy handler, in order
destroyProgram == <<"ngOnDestroy", "watchers", "observers", "off">>

\* the handler withdrawing the batches armed for the instance
destroyHandler_Withdraw(D, m, i) ==
  [RunDestroy(D, destroyProgram, m) EXCEPT
     !.q = SelectSeq(D.q, LAMBDA b : b.inst # i),
     !.c = [D.c EXCEPT !.sem = [view |-> FALSE, content |-> FALSE]]]

\* The $destroy handler of instance i on D = (trace, closure, controller
\* record, $evalAsync queue): it writes neither the controller nor the queue.
destroyHandler(D, m, i) == RunDestroy(D, destroyProgram, m)

\* ------------------------------------------------------------ actions

\* no $evalAsync task is being executed
Idle == task = NoTask

\* the host runtime registers the type: createFromType runs once
Compile ==
  /\ ddo.status = "none"
  /\ ddo' = createFromType(meta, host, legacy, statics)
  /\ ctrl' = [i \in Instances |-> [ctrl[i] EXCEPT !.notifier = prototypeNotifier(meta)]]
  /\ lastOp' = Op("compile", 0, "none", createFromType(meta, host, legacy, statics).status)
  /\ UNCHANGED <<meta, legacy, statics, returned, live, phase, closure, trace, asyncQueue, task, host, applyAsyncQueue, events>>

\* the host runtime calls the directive factory createFromType returned
DirectiveFactory ==
  /\ ddo.status = "ok"
  /\ Len(returned) < MaxCalls
  /\ returned' = Append(returned, ddo.obj)
  /\ lastOp' = Op("factory", 0, "none", "ok")
  /\ UNCHANGED <<meta, legacy, statics, ddo, live, phase, ctrl, closure, trace,
                 asyncQueue, task, host, applyAsyncQueue, events>>

\* the host runtime calls link.pre on a matched node
PreLink(i) ==
  /\ i \in live /\ ddo.status = "ok" /\ ddo.pre
  /\ phase[i] = "created" /\ Idle
  /\ LET L == preLink(LinkState(i), meta)
     IN  /\ ctrl' = [ctrl EXCEPT ![i] = L.c]
         /\ trace' = [trace EXCEPT ![i] = L.tr]
  /\ phase' = [phase EXCEPT ![i] = "prelinked"]
  /\ lastOp' = Op("preLink", i, "none", "ok")
  /\ UNCHANGED <<meta, legacy, statics, returned, ddo, live, closure, asyncQueue, task, host, applyAsyncQueue, events>>

\* the host runtime calls link.post (or link) on a matched node
PostLink(i) ==
  /\ i \in live /\ ddo.status = "ok"
  /\ phase[i] = (IF ddo.pre THEN "prelinked" ELSE "created") /\ Idle
  /\ LET L == postLink(LinkState(i), meta, i)
     IN  /\ ctrl' = [ctrl EXCEPT ![i] = L.c]
         /\ asyncQueue' = L.q
         /\ trace' = [trace EXCEPT ![i] = L.tr]
         /\ closure' = [closure EXCEPT ![i] =
                          [handler |-> L.handler, watchers |-> L.w,
                           observers |-> L.o, listeners |-> L.l]]
         /\ phase' = [phase EXCEPT ![i] = IF L.ok THEN "linked" ELSE "crashed"]
         /\ lastOp' = Op("postLink", i, "none", IF L.ok THEN "ok" ELSE "throw")
  /\ UNCHANGED <<meta, legacy, statics, returned, ddo, live, task, host, applyAsyncQueue, events>>

\* the scope of a linked node is destroyed: $destroy reaches the handler
\* postLink registered, if it got that far
Destroy(i) ==
  /\ i \in live /\ phase[i] \in {"linked", "crashed"} /\ Idle
  /\ LET D0 == [tr |-> trace[i], cl |-> closure[i], c |-> ctrl[i], q |-> asyncQueue]
         D  == IF closure[i].handler THEN destroyHandler(D0, meta, i) ELSE D0
     IN  /\ trace' = [trace EXCEPT ![i] = D.tr]
         /\ ctrl' = [ctrl EXCEPT ![i] = D.c]
         /\ asyncQueue' = D.q
  /\ phase' = [phase EXCEPT ![i] = "destroyed"]
  /\ lastOp' = Op("destroy", i, "none", "ok")
  /\ UNCHANGED <<meta, legacy, statics, returned, ddo, live, closure, task, host, applyAsyncQueue, events>>

\* the onFirstChangeDoneCb arrays other code calls the notifier with
CallbackChoices == {<<>>, <<"cbA">>, <<"undefined", "cbB">>}

\* a child controller (or a running resolver or hook) calls
\* ctrl._ngOnChildrenChanged(type, cbs) on instance i
Notify(i, type, cbs) ==
  /\ i \in live /\ ctrl[i].notifier # "undefined"
  /\ LET r == callNotifier(ctrl[i], asyncQueue, i, type, cbs)
     IN  /\ ctrl' = [ctrl EXCEPT ![i] = r.c]
         /\ asyncQueue' = r.q
         /\ lastOp' = Op("notify", i, type, r.out)
  /\ UNCHANGED <<meta, legacy, statics, returned, ddo, live, phase, closure, trace, task, host, applyAsyncQueue, events>>

\* the digest loop takes the oldest $evalAsync task and starts it
Fire ==
  /\ Idle /\ asyncQueue # <<>>
  /\ LET b == Head(asyncQueue)
     IN  /\ ctrl' = [ctrl EXCEPT ![b.inst] = taskStart(@, b)]
         /\ task' = [inst |-> b.inst, kind |-> b.kind, cbs |-> b.cbs,
                     pos |-> 0, ran |-> <<>>]
         /\ lastOp' = Op("fire", b.inst, b.kind, "ok")
  /\ asyncQueue' = Tail(asyncQueue)
  /\ UNCHANGED <<meta, legacy, statics, returned, ddo, live, phase, closure, trace, host, applyAsyncQueue, events>>

\* the running task calls its next resolver or callback
RunStep ==
  /\ ~Idle /\ ~TaskDone(meta, task)
  /\ task' = [task EXCEPT !.pos = @ + 1,
                          !.ran = taskRun(@, taskProgram(meta, task)[task.pos + 1])]
  /\ lastOp' = Op("run", task.inst, task.kind,
                  taskStepOutcome(taskProgram(meta, task)[task.pos + 1],
                                  phase[task.inst]))
  /\ UNCHANGED <<meta, legacy, statics, returned, ddo, live, phase, ctrl, closure, trace, asyncQueue, host, applyAsyncQueue, events>>

\* the running task returns to the digest loop
TaskEnd ==
  /\ ~Idle /\ TaskDone(meta, task)
  /\ task' = NoTask
  /\ lastOp' = Op("end", task.inst, task.kind, "ok")
  /\ UNCHANGED <<meta, legacy, statics, returned, ddo, live, phase, ctrl, closure, trace, asyncQueue, host, applyAsyncQueue, events>>

\* a host event with a listener is dispatched on the node of instance i (the
\* $destroy handler has not detached the listeners)
HostEvent(i, name) ==
  /\ i \in live /\ phase[i] = "linked" /\ closure[i].listeners > 0 /\ Idle
  /\ name \in DOMAIN ddo.host.hostListeners
  /\ Len(events) < MaxEvents
  /\ LET r == hostListener(events, applyAsyncQueue, i, name, ddo.host.hostListeners[name])
     IN  /\ events' = r.events
         /\ applyAsyncQueue' = r.q
         /\ lastOp' = Op("event", i, "none", r.out)
  /\ UNCHANGED <<meta, legacy, statics, returned, ddo, live, phase, ctrl, closure, trace, asyncQueue, task, host>>

\* the host runtime runs the oldest $applyAsync task; the method returns a
\* truthy value or not
ApplyAsync(noPreventDefault) ==
  /\ Idle /\ applyAsyncQueue # <<>>
  /\ events' = applyAsyncTask(events, Head(applyAsyncQueue), noPreventDefault)
  /\ applyAsyncQueue' = Tail(applyAsyncQueue)
  /\ lastOp' = Op("applyAsync", Head(applyAsyncQueue).inst, "none",
                  IF noPreventDefault THEN "truthy" ELSE "falsy")
  /\ UNCHANGED <<meta, legacy, statics, returned, ddo, live, phase, ctrl, closure, trace, asyncQueue, task, host>>

\* ------------------------------------------------------------ specifications

InitState(descriptors) ==
  /\ meta \in descriptors
  /\ ddo = NoDDO
  /\ live = {1}
  /\ phase = [i \in Instances |-> "created"]
  /\ ctrl = [i \in Instances |-> NewCtrl]
  /\ closure = [i \in Instances |-> NoClosure]
  /\ trace = [i \in Instances |-> <<>>]
  /\ asyncQueue = <<>>
  /\ task = NoTask
  /\ lastOp = Op("init", 0, "none", "ok")
  /\ host = HostMap(meta)
  /\ applyAsyncQueue = <<>>
  /\ events = <<>>
  /\ legacy = LegacyOf(meta)
  /\ statics = NoStatics
  /\ returned = <<>>

\* a descriptor names the host entries and the bindings it has, a component
\* gets its bindings from bindToController, a directive has no template
Canonical(d) ==
  /\ ~d.hasHost => d.hostN = 0
  /\ d.hostN = 0 => d.listener = GoEvent
  /\ d.component => d.bindings = 0
  /\ ~d.component => ~d.template /\ ~d.templateUrl /\ ~d.transclude

SchedHookSets ==
  { {},
    {ngOnInit, ngOnDestroy, ngAfterViewInit, ngAfterContentInit},
    {ngOnDestroy, ngAfterContentInit, ngAfterContentChecked},
    LifeCycleHooks }

\* the descriptors of the scheduler's specification
SchedDescriptors ==
  { d \in DescriptorSpace(SchedHookSets) :
      /\ Canonical(d)
      /\ d.component => d.template /\ ~d.templateUrl /\ d.transclude
      /\ d.hasHost => d.hostN = MaxHost
      /\ d.listener = GoEvent
      /\ d.requires = MaxRequire
      /\ ~d.component => d.bindings = MaxBindings }

Init == InitState(SchedDescriptors)

Next ==
  \/ Compile
  \/ \E i \in Instances : PreLink(i)
  \/ \E i \in Instances : PostLink(i)
  \/ \E i \in Instances : Destroy(i)
  \/ \E i \in Instances, type \in ChildrenChangeHook \cup {OtherKind},
        cbs \in CallbackChoices : Notify(i, type, cbs)
  \/ Fire
  \/ RunStep
  \/ TaskEnd

Spec == Init /\ [][Next]_vars

\* the descriptors of the link state machine's specification
LinkDescriptors ==
  { d \in DescriptorSpace(SUBSET LifeCycleHooks) :
      /\ Canonical(d)
      /\ d.listener = GoEvent
      /\ d.component => d.template /\ ~d.templateUrl }

LinkInit == InitState(LinkDescriptors)

LinkNext ==
  \/ Compile
  \/ \E i \in Instances : PreLink(i)
  \/ \E i \in Instances : PostLink(i)
  \/ \E i \in Instances : Destroy(i)
  \/ Fire
  \/ RunStep
  \/ TaskEnd

LinkSpec == LinkInit /\ [][LinkNext]_vars

\* the descriptors of the compiler's specification: every combination of
\* template and templateUrl, callback strings that parse and one that does not
CompileDescriptors ==
  { d \in DescriptorSpace(SUBSET LifeCycleHooks) :
      /\ Canonical(d)
      /\ d.listener \in {GoEvent, GoBare} }

CompileInit == InitState(CompileDescriptors)

CompileSpec == CompileInit /\ [][LinkNext]_vars

\* the bodies of the host keys of the host processor's specification:
\* class.on, className, attr.role, attrX, class, id
HostKeyBodies ==
  { <<"c", "l", "a", "s", "s", ".", "o", "n">>,
    <<"c", "l", "a", "s", "s", "N", "a", "m", "e">>,
    <<"a", "t", "t", "r", ".", "r", "o", "l", "e">>,
    <<"a", "t", "t", "r", "X">>,
    <<"c", "l", "a", "s", "s">>,
    <<"i", "d">> }

\* body, [body], (body) and [body)
HostKeysOf(body) ==
  { body, <<"[">> \o body \o <<"]">>, <<"(">> \o body \o <<")">>,
    <<"[">> \o body \o <<")">> }

HostEntries(values) ==
  { [key |-> k, value |-> v] :
      k \in UNION {HostKeysOf(body) : body \in HostKeyBodies}, v \in values }

\* host mappings of up to two entries, of different names and values
HostChoices ==
  {UndefinedHost, HostOf(<<>>)}
    \cup {HostOf(<<e>>) : e \in HostEntries({<<"p">>, GoEvent})}
    \cup { HostOf(<<pair[1], pair[2]>>) :
             pair \in { ef \in HostEntries({<<"p">>, GoEvent})
                                \X HostEntries({<<"q">>, GoEventTarget}) :
                          stripBindingOrListenerBrackets(ef[1].key)
                            # stripBindingOrListenerBrackets(ef[2].key) } }

\* a directive with nothing but a selector and a host mapping
HostDescriptor ==
  [component |-> FALSE, template |-> FALSE, templateUrl |-> FALSE,
   transclude |-> FALSE, hasHost |-> TRUE, hostN |-> 0, queries |-> <<>>,
   hooks |-> {}, requires |-> 0, bindings |-> 0, listener |-> GoEvent,
   inputs |-> <<>>, attrs |-> <<>>, outputs |-> <<>>]

\* the specification of the host processor: the type is compiled, its host
\* mapping is any of HostChoices
HostInit ==
  /\ meta = HostDescriptor
  /\ ddo = NoDDO
  /\ live = {}
  /\ phase = [i \in Instances |-> "created"]
  /\ ctrl = [i \in Instances |-> NewCtrl]
  /\ closure = [i \in Instances |-> NoClosure]
  /\ trace = [i \in Instances |-> <<>>]
  /\ asyncQueue = <<>>
  /\ task = NoTask
  /\ lastOp = Op("init", 0, "none", "ok")
  /\ host \in HostChoices
  /\ applyAsyncQueue = <<>>
  /\ events = <<>>
  /\ legacy = LegacyOf(meta)
  /\ statics = NoStatics
  /\ returned = <<>>

HostNext == Compile

HostSpec == HostInit /\ [][HostNext]_vars

ListenerHookSets ==
  {{}, {ngOnInit, ngOnDestroy}, {ngAfterContentChecked}, {ngAfterViewInit}}

\* the descriptors of the listeners' specification: a host mapping with
\* listeners of every callback string, at most one query
ListenerDescriptors ==
  { d \in DescriptorSpace(ListenerHookSets) :
      /\ Canonical(d)
      /\ d.hasHost /\ d.hostN = MaxHost
      /\ Len(d.queries) <= 1
      /\ d.requires = 0 /\ d.bindings = 0
      /\ d.component => d.transclude }

ListenerInit == InitState(ListenerDescriptors)

ListenerNext ==
  \/ Compile
  \/ \E i \in Instances : PreLink(i)
  \/ \E i \in Instances : PostLink(i)
  \/ \E i \in Instances : Destroy(i)
  \/ \E i \in Instances : Notify(i, OtherKind, <<>>)
  \/ \E i \in Instances : \E name \in DOMAIN ddo.host.hostListeners : HostEvent(i, name)
  \/ \E noPreventDefault \in BOOLEAN : ApplyAsync(noPreventDefault)
  \/ Fire
  \/ RunStep
  \/ TaskEnd

ListenerSpec == ListenerInit /\ [][ListenerNext]_vars

\* the host runtime runs every task handed to $applyAsync and to $evalAsync
FairListenerSpec ==
  /\ ListenerSpec
  /\ WF_vars(Fire \/ RunStep \/ TaskEnd)
  /\ WF_vars(\E noPreventDefault \in BOOLEAN : ApplyAsync(noPreventDefault))

\* the descriptors of the two-instance specification: components with a view
\* query and a content query, with and without the init hook
TwoInstanceDescriptors ==
  { d \in SchedDescriptors :
      /\ d.component /\ d.hasHost
      /\ d.queries = <<"ViewChild", "ContentChildren">>
      /\ d.hooks \in {{}, {ngOnInit, ngOnDestroy, ngAfterViewInit, ngAfterContentInit}} }

\* two nodes match the type: the host runtime links both instances
TwoInstanceInit ==
  /\ meta \in TwoInstanceDescriptors
  /\ ddo = NoDDO
  /\ live = {1, 2}
  /\ phase = [i \in Instances |-> "created"]
  /\ ctrl = [i \in Instances |-> NewCtrl]
  /\ closure = [i \in Instances |-> NoClosure]
  /\ trace = [i \in Instances |-> <<>>]
  /\ asyncQueue = <<>>
  /\ task = NoTask
  /\ lastOp = Op("init", 0, "none", "ok")
  /\ host = HostMap(meta)
  /\ applyAsyncQueue = <<>>
  /\ events = <<>>
  /\ legacy = LegacyOf(meta)
  /\ statics = NoStatics
  /\ returned = <<>>

TwoInstanceNext ==
  \/ Compile
  \/ \E i \in Instances : PreLink(i)
  \/ \E i \in Instances : PostLink(i)
  \/ \E i \in Instances : Destroy(i)
  \/ \E i \in Instances, type \in ChildrenChangeHook : Notify(i, type, <<"cbA">>)
  \/ Fire
  \/ RunStep
  \/ TaskEnd

TwoInstanceSpec == TwoInstanceInit /\ [][TwoInstanceNext]_vars

\* the descriptors of the specification of the definition object: a host-less
\* descriptor without hooks, with every combination of template and
\* templateUrl; whether it transcludes is what its legacy mapping says
DdoDescriptors ==
  { d \in DescriptorSpace({{}}) :
      /\ ~d.hasHost /\ d.hostN = 0 /\ d.listener = GoEvent
      /\ d.queries = <<>> /\ d.requires = 0 /\ d.bindings = 0 }

LegacyKeys == {"link", "require", "controller", "template", "transclude", "restrict"}

DdoInit ==
  /\ meta \in DdoDescriptors
  /\ ddo = NoDDO
  /\ live = {}
  /\ phase = [i \in Instances |-> "created"]
  /\ ctrl = [i \in Instances |-> NewCtrl]
  /\ closure = [i \in Instances |-> NoClosure]
  /\ trace = [i \in Instances |-> <<>>]
  /\ asyncQueue = <<>>
  /\ task = NoTask
  /\ lastOp = Op("init", 0, "none", "ok")
  /\ host = HostMap(meta)
  /\ applyAsyncQueue = <<>>
  /\ events = <<>>
  /\ legacy \in { MapOf(keys, "legacy") : keys \in SUBSET LegacyKeys }
  /\ meta.transclude = ("transclude" \in DOMAIN legacy)
  /\ statics \in [compile : BOOLEAN, link : BOOLEAN]
  /\ returned = <<>>

DdoNext == Compile \/ DirectiveFactory

DdoSpec == DdoInit /\ [][DdoNext]_vars

\* the binding declarations of the specification of the bindings: a name, a
\* name with an alias, with blanks around either, and a name with an empty
\* alias
Declarations ==
  { <<"a">>,
    <<"a", ":", "x">>,
    <<" ", "a", " ", ":", " ", "y", " ">>,
    <<"a", ":">>,
    <<"b">>,
    <<"b", ":", "x">> }

DeclarationLists ==
  UNION { [1 .. n -> Declarations] : n \in 0 .. MaxDecl }

\* a component with nothing but a template and its binding declarations
BindingDescriptors ==
  { [component |-> TRUE, template |-> TRUE, templateUrl |-> FALSE,
     transclude |-> FALSE, hasHost |-> FALSE, hostN |-> 0, queries |-> <<>>,
     hooks |-> {}, requires |-> 0, bindings |-> 0, listener |-> GoEvent,
     inputs |-> i, attrs |-> a, outputs |-> o] :
      i \in DeclarationLists, a \in DeclarationLists, o \in DeclarationLists }

BindingInit ==
  /\ meta \in BindingDescriptors
  /\ ddo = NoDDO
  /\ live = {}
  /\ phase = [i \in Instances |-> "created"]
  /\ ctrl = [i \in Instances |-> NewCtrl]
  /\ closure = [i \in Instances |-> NoClosure]
  /\ trace = [i \in Instances |-> <<>>]
  /\ asyncQueue = <<>>
  /\ task = NoTask
  /\ lastOp = Op("init", 0, "none", "ok")
  /\ host = HostMap(meta)
  /\ applyAsyncQueue = <<>>
  /\ events = <<>>
  /\ legacy = LegacyOf(meta)
  /\ statics = NoStatics
  /\ returned = <<>>

BindingNext == Compile

BindingSpec == BindingInit /\ [][BindingNext]_vars

\* The digest loop drains the $evalAsync queue: it keeps taking tasks, and a
\* task it has started runs to its end.
FairSpec == Spec /\ WF_vars(Fire \/ RunStep \/ TaskEnd)

\* ------------------------------------------------------------ what the claims speak of

Kinds == {"view", "content"}

\* the places of the $evalAsync queue that hold a batch of instance i and kind k
Pending(i, k) ==
  {n \in 1 .. Len(asyncQueue) : asyncQueue[n].inst = i /\ asyncQueue[n].kind = k}

PendingNext(i, k) ==
  {n \in 1 .. Len(asyncQueue') : asyncQueue'[n].inst = i /\ asyncQueue'[n].kind = k}

\* this step is a call of the notifier of instance i with this type
NotifyStep(i, type) ==
  lastOp'.op = "notify" /\ lastOp'.inst = i /\ lastOp'.kind = type

\* the resolvers a batch of kind k has to run: the view (content) queries of
\* the descriptor, in the order the queries map lists them
ResolversOf(k) ==
  SelectSeq([p \in 1 .. Len(meta.queries) |->
               [t |-> "resolver", name |-> meta.queries[p], n |-> p]],
            LAMBDA r : (k = "view") <=> (r.name \in {"ViewChild", "ViewChildren"}))

\* the callbacks a batch has to invoke: the functions among those supplied, in
\* the order supplied
FunctionsOf(cbs) ==
  SelectSeq([p \in 1 .. Len(cbs) |-> [t |-> "cb", name |-> cbs[p], n |-> p]],
            LAMBDA c : c.name # "undefined")

\* what a batch runs from its first statement to its last
FullRun(t) == ResolversOf(t.kind) \o FunctionsOf(t.cbs)

IsPrefix(a, b) == Len(a) <= Len(b) /\ \A p \in 1 .. Len(a) : a[p] = b[p]

TaskAtEnd == task # NoTask /\ TaskDone(meta, task)

\* ------------------------------------------------------------ C1

\* C1: a call of the notifier for a kind whose batch is armed and has not fired
\* arms nothing and leaves the armed batch (and the callbacks of the call that
\* armed it) as it is, so one batch stands for all those calls; the batch is
\* taken from the queue once, and at its end it has run every resolver of the
\* kind once and invoked every callback function of the arming call once.
C1_Coalescing ==
  /\ [][ /\ \A i \in Instances, type \in ChildrenChangeHook :
              (NotifyStep(i, type) /\ Pending(i, kindOf(type)) # {})
                => /\ asyncQueue' = asyncQueue
                   /\ Cardinality(PendingNext(i, kindOf(type))) = 1
         /\ lastOp'.op = "fire"
              => /\ asyncQueue' = Tail(asyncQueue)
                 /\ task'.inst = Head(asyncQueue).inst
                 /\ task'.kind = Head(asyncQueue).kind
                 /\ task'.cbs = Head(asyncQueue).cbs ]_vars
  /\ [](TaskAtEnd => task.ran = FullRun(task))

\* a second call was made while the batch of the first waited, and that batch
\* has resolvers to run and a callback function to invoke
C1_Witness ==
  /\ lastOp.op = "notify" /\ lastOp.outcome = "absorbed"
  /\ \E n \in 1 .. Len(asyncQueue) :
       /\ asyncQueue[n].inst = lastOp.inst
       /\ asyncQueue[n].kind = kindOf(lastOp.kind)
       /\ FunctionsOf(asyncQueue[n].cbs) # <<>>
       /\ ResolversOf(asyncQueue[n].kind) # <<>>

\* ------------------------------------------------------------ C2

\* C2: in every reachable state every (instance, kind) has at most one batch
\* in the $evalAsync queue.
C2_AtMostOnePending ==
  \A i \in Instances, k \in Kinds : Cardinality(Pending(i, k)) <= 1

\* a destroyed instance with a batch waiting, whose notifier was just called again
C2_Witness ==
  /\ lastOp.op = "notify" /\ lastOp.outcome = "absorbed"
  /\ phase[lastOp.inst] = "destroyed"
  /\ Cardinality(Pending(lastOp.inst, kindOf(lastOp.kind))) = 1

\* ------------------------------------------------------------ C3

\* C3: what a batch has run so far is always a prefix of: the resolvers of its
\* kind in the order of the queries map, then the callback functions in the
\* order supplied; at its end it has run all of them.  No callback is invoked
\* before the last resolver of the kind has run.
C3_ResolversBeforeCallbacks ==
  task # NoTask =>
    /\ IsPrefix(task.ran, FullRun(task))
    /\ TaskAtEnd => task.ran = FullRun(task)

\* a batch with two resolvers and two callback functions has ended while
\* another batch was waiting
C3_Witness ==
  /\ TaskAtEnd
  /\ Len(ResolversOf(task.kind)) >= 2
  /\ Len(FunctionsOf(task.cbs)) >= 2
  /\ asyncQueue # <<>>
  /\ task.ran = FullRun(task)

\* ------------------------------------------------------------ C4

\* C4: a batch that starts has cleared the semaphore of its kind and has run
\* nothing yet; a call of the notifier for the same instance and kind made
\* while the batch is running leaves the semaphore set and exactly one batch
\* waiting, and arms that batch itself when none was waiting; every waiting
\* batch is started later.
C4_RearmWhileRunning ==
  /\ [][ /\ lastOp'.op = "fire"
              => /\ ~ctrl'[lastOp'.inst].sem[lastOp'.kind]
                 /\ task'.ran = <<>>
         /\ \A i \in Instances, type \in ChildrenChangeHook :
              (NotifyStep(i, type) /\ task # NoTask /\ task.inst = i
                                   /\ task.kind = kindOf(type))
                => /\ ctrl'[i].sem[kindOf(type)]
                   /\ Cardinality(PendingNext(i, kindOf(type))) = 1
                   /\ Pending(i, kindOf(type)) = {}
                        => /\ lastOp'.outcome = "armed"
                           /\ Len(asyncQueue') = Len(asyncQueue) + 1
                           /\ SubSeq(asyncQueue', 1, Len(asyncQueue)) = asyncQueue ]_vars
  /\ \A i \in Instances, k \in Kinds :
       (Pending(i, k) # {}) ~> (lastOp.op = "fire" /\ lastOp.inst = i /\ lastOp.kind = k)

\* the notifier was called for the running batch's kind after its first
\* resolver, and armed a fresh batch
C4_Witness ==
  /\ lastOp.op = "notify" /\ lastOp.outcome = "armed"
  /\ task # NoTask /\ task.inst = lastOp.inst /\ task.kind = kindOf(lastOp.kind)
  /\ task.ran # <<>>
  /\ Cardinality(Pending(task.inst, task.kind)) = 1

\* ------------------------------------------------------------ C5

\* C5: the $destroy handler leaves the $evalAsync queue and the semaphores as
\* they are; a batch of a destroyed instance is taken from the queue like any
\* other, clears its semaphore, runs its resolvers and then its callbacks with
\* no statement throwing, and every batch waiting for a destroyed instance
\* reaches its end.
C5_DestroyKeepsBatch ==
  /\ [][ /\ lastOp'.op = "destroy"
              => /\ asyncQueue' = asyncQueue
                 /\ \A i \in Instances : ctrl'[i].sem = ctrl[i].sem
         /\ (lastOp'.op = "fire" /\ phase[lastOp'.inst] = "destroyed")
              => /\ asyncQueue' = Tail(asyncQueue)
                 /\ ~ctrl'[lastOp'.inst].sem[lastOp'.kind]
         /\ (lastOp'.op = "run" /\ phase[lastOp'.inst] = "destroyed")
              => lastOp'.outcome \in {"empty", "called", "skipped"} ]_vars
  /\ []((task # NoTask /\ phase[task.inst] = "destroyed")
          => /\ IsPrefix(task.ran, FullRun(task))
             /\ TaskAtEnd => task.ran = FullRun(task))
  /\ \A i \in Instances, k \in Kinds :
       (phase[i] = "destroyed" /\ Pending(i, k) # {})
         ~> (lastOp.op = "end" /\ lastOp.inst = i /\ lastOp.kind = k)

\* a batch armed by postLink (it carries the view hooks) has run to its end on
\* a destroyed instance
C5_Witness ==
  /\ TaskAtEnd /\ phase[task.inst] = "destroyed"
  /\ task.cbs = <<"undefined", ngAfterViewInit, ngAfterViewChecked>>
  /\ Len(task.ran) >= 3

\* ------------------------------------------------------------ C6

\* C6: a call of the installed notifier with a type that is neither FromView
\* nor FromContent throws and changes no semaphore and no queue.
C6_UnknownKindThrows ==
  [][\A i \in Instances :
       (lastOp'.op = "notify" /\ lastOp'.inst = i
          /\ lastOp'.kind \notin ChildrenChangeHook /\ ctrl[i].notifier = "installed")
         => /\ lastOp'.outcome = "error"
            /\ ctrl' = ctrl
            /\ asyncQueue' = asyncQueue
            /\ task' = task]_vars

\* the installed notifier has thrown on an unknown type while a batch waited
C6_Witness ==
  /\ lastOp.op = "notify" /\ lastOp.kind = OtherKind /\ lastOp.outcome = "error"
  /\ asyncQueue # <<>>

\* ------------------------------------------------------------ the link trace

\* the places of the trace of instance i that hold the event e
PlacesOf(i, e) == {p \in 1 .. Len(trace[i]) : trace[i][p] = e}

\* the places of the trace of instance i that hold an event called name
PlacesNamed(i, name) == {p \in 1 .. Len(trace[i]) : trace[i][p].ev = name}

\* the watchers and observers the post-link closure of instance i collected
SubscriptionsOf(i) ==
  {d \in {closure[i].watchers[p] : p \in 1 .. Len(closure[i].watchers)}
        \cup {closure[i].observers[p] : p \in 1 .. Len(closure[i].observers)} :
     d.kind # "notifier"}

\* ------------------------------------------------------------ C7

DestroyOrder(i) ==
  /\ Cardinality(PlacesOf(i, Ev("hook", ngOnDestroy, 0))) = 1
  /\ \A d \in SubscriptionsOf(i) :
       Cardinality(PlacesOf(i, Ev("dispose", d.kind, d.n))) = 1
  /\ Cardinality(PlacesNamed(i, "off")) = 1
  /\ \A h \in PlacesOf(i, Ev("hook", ngOnDestroy, 0)),
        r \in PlacesNamed(i, "dispose") \cup PlacesNamed(i, "off") : h < r
  /\ \A r \in PlacesNamed(i, "dispose"), f \in PlacesNamed(i, "off") : r < f

\* C7: once an instance whose type declares the destroy hook is detached, the
\* hook has been invoked exactly once and before any disposal, each of the
\* subscriptions its post-attach collected has been disposed exactly once, and
\* the listeners have been detached, however many subscriptions there are.
C7_DestroyOrder ==
  \A i \in Instances :
    (phase[i] = "destroyed" /\ ngOnDestroy \in meta.hooks) => DestroyOrder(i)

\* the same, of the descriptors that supply a host mapping
C7_DestroyOrderWithHost ==
  \A i \in Instances :
    (phase[i] = "destroyed" /\ ngOnDestroy \in meta.hooks /\ meta.hasHost)
      => DestroyOrder(i)

\* a detached directive without host mapping: its watcher and its observer were
\* installed, its destroy hook was never invoked and nothing was disposed
C7_Witness ==
  \E i \in Instances :
    /\ phase[i] = "destroyed" /\ ngOnDestroy \in meta.hooks /\ ~meta.hasHost
    /\ Cardinality(SubscriptionsOf(i)) >= 2
    /\ PlacesOf(i, Ev("hook", ngOnDestroy, 0)) = {}
    /\ PlacesNamed(i, "dispose") = {}

\* ------------------------------------------------------------ C8

\* the place of a step in the order: assignment, binding activation, host
\* wiring (static attributes, bindings, listeners), query scheduling
StepRank(e) ==
  CASE e.ev = "assignRequired"    -> 1
    [] e.ev = "directiveBindings" -> 2
    [] e.ev = "hostStatic"        -> 3
    [] e.ev = "hostBindings"      -> 4
    [] e.ev = "hostListeners"     -> 5
    [] e.ev = "setQuery"          -> 6
    [] e.ev = "schedule"          -> 7
    [] OTHER                      -> 0

\* C8: in the trace of every instance the steps stand in the order required
\* controller assignment, binding activation, host wiring, query scheduling;
\* binding activation is a step of directives only; and an instance whose
\* post-attach has returned has made each of these steps (scheduling when the
\* descriptor has queries).
C8_LinkOrder ==
  \A i \in Instances :
    /\ \A p, q \in 1 .. Len(trace[i]) :
         (p < q /\ StepRank(trace[i][p]) > 0 /\ StepRank(trace[i][q]) > 0)
           => StepRank(trace[i][p]) <= StepRank(trace[i][q])
    /\ meta.component => PlacesNamed(i, "directiveBindings") = {}
    /\ phase[i] = "linked" =>
         /\ \A name \in {"assignRequired", "hostStatic", "hostBindings",
                         "hostListeners", "setQuery"} :
              Cardinality(PlacesNamed(i, name)) = 1
         /\ ~meta.component => Cardinality(PlacesNamed(i, "directiveBindings")) = 1
         /\ Len(meta.queries) > 0 <=> PlacesNamed(i, "schedule") # {}

\* a linked directive with a required controller, bindings, host entries and
\* queries, which made its assignment in post-attach
C8_Witness ==
  \E i \in Instances :
    /\ phase[i] = "linked" /\ ~meta.component /\ ngOnInit \notin meta.hooks
    /\ meta.requires > 0 /\ meta.bindings > 0 /\ meta.hostN > 0
    /\ PlacesNamed(i, "schedule") # {}
    /\ PlacesNamed(i, "directiveBindings") # {}

\* ------------------------------------------------------------ C9

\* C9: the link implementation has a pre function exactly when the type
\* declares the init hook.  Pre-attach assigns every required controller under
\* its name and then invokes the init hook, and that is all it does; an
\* instance that has passed its first link function has made the assignment
\* exactly once, as the first step of all, and has invoked the init hook
\* exactly once, right after it, when the type declares it and never otherwise.
C9_PreLinkIffInit ==
  /\ ddo.status = "ok" => (ddo.pre <=> ngOnInit \in meta.hooks)
  /\ \A i \in Instances :
       /\ phase[i] = "created" => trace[i] = <<>>
       /\ phase[i] = "prelinked" => (ngOnInit \in meta.hooks /\ Len(trace[i]) = 2)
       /\ phase[i] # "created" =>
            /\ PlacesNamed(i, "assignRequired") = {1}
            /\ DOMAIN ctrl[i].req = 1 .. meta.requires
            /\ \A n \in 1 .. meta.requires :
                 ctrl[i].req[requiredCtrlVarNames(meta)[n]] = ControllerTuple(meta)[n + 1]
            /\ PlacesOf(i, Ev("hook", ngOnInit, 0)) =
                 (IF ngOnInit \in meta.hooks THEN {2} ELSE {})

\* an instance with the init hook and a required controller whose post-attach
\* has returned
C9_Witness ==
  \E i \in Instances :
    /\ phase[i] = "linked" /\ ngOnInit \in meta.hooks /\ meta.requires > 0
    /\ Len(trace[i]) > 2

\* ------------------------------------------------------------ C10

\* the names of the callback functions of a batch, in order
CallbackNames(cbs) ==
  [p \in 1 .. Len(FunctionsOf(cbs)) |-> FunctionsOf(cbs)[p].name]

\* those of the hooks hs that the type declares, in order
Declared(hs) == SelectSeq(hs, LAMBDA h : h \in meta.hooks)

AfterHooks ==
  {ngAfterViewInit, ngAfterViewChecked, ngAfterContentInit, ngAfterContentChecked}

ComponentPostLinkDone(i) ==
  IF Len(meta.queries) > 0
    THEN /\ \A h \in AfterHooks : PlacesOf(i, Ev("hook", h, 0)) = {}
         /\ Cardinality(Pending(i, "view")) = 1
         /\ Cardinality(Pending(i, "content")) = 1
         /\ \A n \in Pending(i, "view") :
              CallbackNames(asyncQueue[n].cbs)
                = Declared(<<ngAfterViewInit, ngAfterViewChecked>>)
         /\ \A n \in Pending(i, "content") :
              CallbackNames(asyncQueue[n].cbs)
                = Declared(<<ngAfterContentInit, ngAfterContentChecked>>)
    ELSE /\ asyncQueue = <<>>
         /\ \A h \in {ngAfterViewInit, ngAfterContentInit} \cap meta.hooks :
              Cardinality(PlacesOf(i, Ev("hook", h, 0))) = 1

\* C10: when post-attach of a component has ended: with queries no
\* after-view/after-content hook has been invoked, exactly one FromView batch
\* waits with the callbacks after-view-init, after-view-checked and exactly
\* one FromContent batch with after-content-init, after-content-checked;
\* without queries no batch waits and each declared init hook has been invoked.
C10_ComponentPostLink ==
  \A i \in Instances :
    (lastOp.op = "postLink" /\ lastOp.inst = i /\ meta.component)
      => ComponentPostLinkDone(i)

\* the same, of the descriptors that supply a host mapping
C10_ComponentPostLinkWithHost ==
  \A i \in Instances :
    (lastOp.op = "postLink" /\ lastOp.inst = i /\ meta.component /\ meta.hasHost)
      => ComponentPostLinkDone(i)

\* post-attach of a component with queries and no host mapping has ended, and
\* no batch waits
C10_Witness ==
  /\ lastOp.op = "postLink" /\ lastOp.outcome = "throw"
  /\ meta.component /\ ~meta.hasHost /\ Len(meta.queries) > 0
  /\ asyncQueue = <<>>

\* ------------------------------------------------------------ C11

ViewHooks == {ngAfterViewInit, ngAfterViewChecked}

DirectivePostLinkDone(i) ==
  /\ Pending(i, "view") = {}
  /\ \A h \in ViewHooks : PlacesOf(i, Ev("hook", h, 0)) = {}
  /\ IF Len(meta.queries) > 0
       THEN /\ \A h \in AfterHooks : PlacesOf(i, Ev("hook", h, 0)) = {}
            /\ Cardinality(Pending(i, "content")) = 1
            /\ \A n \in Pending(i, "content") :
                 CallbackNames(asyncQueue[n].cbs)
                   = Declared(<<ngAfterContentInit, ngAfterContentChecked>>)
       ELSE /\ asyncQueue = <<>>
            /\ \A h \in AfterHooks :
                 Cardinality(PlacesOf(i, Ev("hook", h, 0)))
                   = (IF h = ngAfterContentInit /\ h \in meta.hooks THEN 1 ELSE 0)

\* C11: when post-attach of a directive has ended no FromView batch waits and
\* no view hook has been invoked; with queries exactly one FromContent batch
\* waits, with the callbacks after-content-init, after-content-checked, and no
\* hook has been invoked; without queries no batch waits and after-content-init
\* (when declared) is the only hook that has been invoked.
C11_DirectivePostLink ==
  \A i \in Instances :
    (lastOp.op = "postLink" /\ lastOp.inst = i /\ ~meta.component)
      => DirectivePostLinkDone(i)

\* the same, of the descriptors that supply a host mapping
C11_DirectivePostLinkWithHost ==
  \A i \in Instances :
    (lastOp.op = "postLink" /\ lastOp.inst = i /\ ~meta.component /\ meta.hasHost)
      => DirectivePostLinkDone(i)

\* post-attach of a directive with queries and no host mapping has ended, and
\* no batch waits
C11_Witness ==
  /\ lastOp.op = "postLink" /\ lastOp.outcome = "throw"
  /\ ~meta.component /\ ~meta.hasHost /\ Len(meta.queries) > 0
  /\ asyncQueue = <<>>

\* ------------------------------------------------------------ C14

\* C14: when post-attach of an instance of a descriptor without host mapping
\* has ended, it has thrown nothing, has applied no static attribute and
\* installed no host binding and no listener, has set up the queries, has
\* scheduled them when there are any, and has registered the $destroy handler.
C14_NoHostNoWiring ==
  \A i \in Instances :
    (lastOp.op = "postLink" /\ lastOp.inst = i /\ ~meta.hasHost) =>
      /\ lastOp.outcome = "ok"
      /\ PlacesNamed(i, "throw") = {}
      /\ closure[i].listeners = 0
      /\ \A p \in 1 .. Len(closure[i].watchers) : closure[i].watchers[p].kind # "host"
      /\ Cardinality(PlacesNamed(i, "setQuery")) = 1
      /\ Len(meta.queries) > 0 <=> PlacesNamed(i, "schedule") # {}
      /\ closure[i].handler

\* post-attach of an instance of a descriptor without host mapping has thrown
\* a TypeError before it set up the queries and the $destroy handler
C14_Witness ==
  \E i \in Instances :
    /\ lastOp.op = "postLink" /\ lastOp.inst = i /\ ~meta.hasHost
    /\ PlacesOf(i, Ev("throw", "TypeError", 0)) # {}
    /\ PlacesNamed(i, "setQuery") = {}
    /\ ~closure[i].handler

\* ------------------------------------------------------------ C19

ClassPrefix == <<"c", "l", "a", "s", "s", ".">>
AttrPrefix == <<"a", "t", "t", "r", ".">>

\* where the binding key [K] belongs: classes under NAME when K is class.NAME,
\* attributes under NAME when K is attr.NAME, else properties under K
BindingPlace(K) ==
  IF StartsWith(K, ClassPrefix)
    THEN [map |-> "classes", name |-> SubSeq(K, Len(ClassPrefix) + 1, Len(K))]
  ELSE IF StartsWith(K, AttrPrefix)
    THEN [map |-> "attributes", name |-> SubSeq(K, Len(AttrPrefix) + 1, Len(K))]
  ELSE [map |-> "properties", name |-> K]

Has(map, key, value) == key \in DOMAIN map /\ map[key] = value

BindingMaps == {"classes", "attributes", "properties"}

\* the classes of the processed host in which the entry e is found
LandsIn(hp, e) ==
  LET name == stripBindingOrListenerBrackets(e.key)
  IN  {c \in {"static", "binding", "listener"} :
         \/ c = "static" /\ Has(hp.hostStatic, name, e.value)
         \/ c = "binding" /\ \E b \in BindingMaps :
                               \E k \in DOMAIN hp.hostBindings[b] :
                                 hp.hostBindings[b][k] = e.value
         \/ c = "listener" /\ name \in DOMAIN hp.hostListeners}

Classified(hp, e) ==
  /\ Cardinality(LandsIn(hp, e)) = 1
  /\ isHostBinding(e.key) =>
       LET place == BindingPlace(SubSeq(e.key, 2, Len(e.key) - 1))
       IN  /\ Has(hp.hostBindings[place.map], place.name, e.value)
           /\ \A b \in BindingMaps \ {place.map} :
                \A k \in DOMAIN hp.hostBindings[b] : hp.hostBindings[b][k] # e.value

\* a binding key whose name starts with class or attr has the dot after it
DottedKey(key) ==
  LET K == stripBindingOrListenerBrackets(key)
  IN  /\ (StartsWith(K, <<"c", "l", "a", "s", "s">>) /\ Len(K) > 5)
           => StartsWith(K, ClassPrefix)
      /\ (StartsWith(K, <<"a", "t", "t", "r">>) /\ Len(K) > 4)
           => StartsWith(K, AttrPrefix)

\* C19: every entry of a compiled host mapping is found in exactly one of the
\* static attributes, the bindings and the listeners; a binding [K] is found
\* in classes under NAME iff K is class.NAME, in attributes under NAME iff K
\* is attr.NAME, and otherwise in properties under K itself.
C19_HostKeyClassification ==
  ddo.status = "ok" =>
    \A p \in 1 .. Len(host.entries) : Classified(ddo.host, host.entries[p])

\* the same, of the entries whose class or attr is followed by a dot
C19_DottedKeysClassified ==
  ddo.status = "ok" =>
    \A p \in 1 .. Len(host.entries) :
      DottedKey(host.entries[p].key) => Classified(ddo.host, host.entries[p])

\* the mapping { "[className]": "p" } was compiled: its entry is a class
\* binding under the name ame, and no property
C19_Witness ==
  /\ ddo.status = "ok"
  /\ host = HostOf(<<[key   |-> <<"[", "c", "l", "a", "s", "s", "N", "a", "m", "e", "]">>,
                      value |-> <<"p">>]>>)
  /\ Has(ddo.host.hostBindings.classes, <<"a", "m", "e">>, <<"p">>)
  /\ ddo.host.hostBindings.properties = EmptyMap

\* ------------------------------------------------------------ C15

Compiled == ddo.status # "none"

NothingLinked == \A i \in Instances : phase[i] = "created" /\ trace[i] = <<>>

CheckedHooks == {ngAfterContentChecked, ngAfterViewChecked}

\* C16: createFromType of a descriptor, component or directive, that declares
\* a checked hook and no query throws the checked-hook error, and no instance
\* is ever linked.
C16_CheckedHookNeedsQuery ==
  (HasAny(meta, CheckedHooks) /\ Len(meta.queries) = 0 /\ Compiled) =>
    /\ ddo.status = "error"
    /\ ddo.error = "CheckedHookWithoutQuery"
    /\ NothingLinked

\* createFromType has thrown on a directive with after-content-checked and no query
C16_Witness ==
  /\ ~meta.component /\ meta.hooks = {ngAfterContentChecked} /\ Len(meta.queries) = 0
  /\ lastOp.op = "compile" /\ lastOp.outcome = "error"
  /\ ddo.error = "CheckedHookWithoutQuery"

\* ------------------------------------------------------------ C17

ContentHooks == {ngAfterContentInit, ngAfterContentChecked}

\* the faults createFromType finds before it looks at the kind of descriptor
EarlierFault(m, h) ==
  \/ HasAny(m, CheckedHooks) /\ Len(m.queries) = 0
  \/ \E p \in 1 .. Len(h.entries) :
       isHostListener(h.entries[p].key) /\ cbStringMatch(h.entries[p].value) = 0

\* C17: createFromType of a directive that declares after-view-init or
\* after-view-checked throws (the view-hook error, unless an earlier test has
\* thrown already); createFromType of a component that declares after-view-init
\* and has no fault returns a DDO.
C17_ViewHookOnlyOnComponent ==
  Compiled =>
    /\ (~meta.component /\ HasAny(meta, ViewHooks)) =>
         /\ ddo.status = "error" /\ NothingLinked
         /\ ~EarlierFault(meta, host) => ddo.error = "ViewHookOnDirective"
    /\ ( /\ meta.component /\ ngAfterViewInit \in meta.hooks
         /\ ~EarlierFault(meta, host)
         /\ HasAny(meta, ContentHooks) => meta.transclude
         /\ ~(meta.template /\ meta.templateUrl) )
         => ddo.status = "ok"

\* createFromType has thrown on a directive whose only hook is after-view-init
C17_Witness ==
  /\ ~meta.component /\ meta.hooks = {ngAfterViewInit}
  /\ lastOp.op = "compile" /\ lastOp.outcome = "error"
  /\ ddo.error = "ViewHookOnDirective"

\* ------------------------------------------------------------ C18

\* C18: createFromType of a component that declares after-content-init or
\* after-content-checked without legacy.transclude throws (the transclusion
\* error, unless an earlier test has thrown already); with legacy.transclude
\* it does not throw the transclusion error; and it never throws it for a
\* directive: a directive with after-content-init and no fault gets a DDO.
C18_ContentHookNeedsTransclusion ==
  Compiled =>
    /\ (meta.component /\ HasAny(meta, ContentHooks) /\ ~meta.transclude) =>
         /\ ddo.status = "error" /\ NothingLinked
         /\ ~EarlierFault(meta, host) => ddo.error = "ContentHookWithoutTransclusion"
    /\ (meta.component /\ meta.transclude) => ddo.error # "ContentHookWithoutTransclusion"
    /\ ~meta.component =>
         /\ ddo.error # "ContentHookWithoutTransclusion"
         /\ (ngAfterContentInit \in meta.hooks /\ ~HasAny(meta, ViewHooks)
               /\ ~EarlierFault(meta, host)) => ddo.status = "ok"

\* createFromType has thrown on a component with after-content-init and
\* without transclusion
C18_Witness ==
  /\ meta.component /\ ngAfterContentInit \in meta.hooks /\ ~meta.transclude
  /\ lastOp.op = "compile" /\ lastOp.outcome = "error"
  /\ ddo.error = "ContentHookWithoutTransclusion"

\* ------------------------------------------------------------ C12

\* the last step raised a fatal error: createFromType threw, a listener threw
\* on a parameter, or the notifier threw on an unknown kind
FatalErrorRaised ==
  \/ lastOp.op = "compile" /\ lastOp.outcome = "error"
  \/ lastOp.op = "event" /\ lastOp.outcome = "ListenerParamError"
  \/ lastOp.op = "notify" /\ lastOp.outcome = "error"

\* no instance has a static host attribute, a host binding or a listener
NoDomWiring ==
  \A i \in Instances :
    PlacesNamed(i, "hostStatic") \cup PlacesNamed(i, "hostBindings")
      \cup PlacesNamed(i, "hostListeners") = {}

\* C12: whenever a fatal configuration error is raised, no static host
\* attribute has been applied, no host binding installed and no listener
\* attached on any instance.
C12_FatalBeforeWiring == FatalErrorRaised => NoDomWiring

\* the same, of the errors createFromType raises
C12_CompileErrorsBeforeWiring ==
  (lastOp.op = "compile" /\ lastOp.outcome = "error") => NoDomWiring

\* a listener has thrown on its parameter on a node that is wired
C12_Witness ==
  /\ lastOp.op = "event" /\ lastOp.outcome = "ListenerParamError"
  /\ PlacesNamed(lastOp.inst, "hostStatic") # {}
  /\ PlacesNamed(lastOp.inst, "hostListeners") # {}

\* ------------------------------------------------------------ C13

\* C13: createFromType of a descriptor whose host mapping has the listener
\* "(e1)": "go(foo)" throws.
C13_NonEventArgumentFailsCompile ==
  (meta.hostN > 0 /\ meta.listener = GoFoo /\ Compiled) => ddo.status = "error"

\* such a descriptor was compiled into a DDO with the listener [go, foo], an
\* instance was linked, and the listener threw when its event was dispatched
C13_Witness ==
  /\ meta.listener = GoFoo /\ ddo.status = "ok"
  /\ \E name \in DOMAIN ddo.host.hostListeners :
       ddo.host.hostListeners[name] = <<<<"g", "o">>, <<"f", "o", "o">>>>
  /\ lastOp.op = "event" /\ lastOp.outcome = "ListenerParamError"

\* ------------------------------------------------------------ C20

\* the arguments the callback strings ask for, of event number e
ExpectedArgs(e) ==
  CASE meta.listener = GoEvent -> <<[event |-> e, path |-> <<>>]>>
    [] meta.listener = GoEventTarget ->
         <<[event |-> e, path |-> <<>>], [event |-> e, path |-> <<".", "t">>]>>
    [] OTHER -> <<>>

\* C20: the dispatch of a host event invokes no method: it only hands a task
\* to $applyAsync; when that task runs, the method of the event is invoked,
\* for the first and only time, with the $event arguments of the callback
\* string, and preventDefault is called on the event iff the method returned
\* no truthy value; no other step invokes a method or prevents a default; and
\* every task handed to $applyAsync runs.
C20_ListenerDeferred ==
  /\ [][ /\ lastOp'.op = "event" =>
              /\ events' = Append(events, NewEvent(lastOp'.inst, events'[Len(events')].name))
              /\ lastOp'.outcome = "deferred" =>
                   /\ Len(applyAsyncQueue') = Len(applyAsyncQueue) + 1
                   /\ applyAsyncQueue'[Len(applyAsyncQueue')].evt = Len(events')
         /\ lastOp'.op = "applyAsync" =>
              LET e == Head(applyAsyncQueue).evt
              IN  /\ applyAsyncQueue' = Tail(applyAsyncQueue)
                  /\ events[e].calls = 0 /\ events'[e].calls = 1
                  /\ events'[e].args = ExpectedArgs(e)
                  /\ events'[e].prevented <=> lastOp'.outcome = "falsy"
                  /\ \A o \in 1 .. Len(events) : o # e => events'[o] = events[o]
         /\ lastOp'.op \notin {"event", "applyAsync"} => events' = events ]_vars
  /\ [](\A e \in 1 .. Len(events) : events[e].calls <= 1)
  /\ \A e \in 1 .. MaxEvents :
       (\E n \in 1 .. Len(applyAsyncQueue) : applyAsyncQueue[n].evt = e)
         ~> (e <= Len(events) /\ events[e].calls = 1)

\* the method of a listener with two arguments has run in its task and
\* returned a truthy value, after the node was destroyed
C20_Witness ==
  /\ lastOp.op = "applyAsync" /\ lastOp.outcome = "truthy"
  /\ meta.listener = GoEventTarget
  /\ phase[lastOp.inst] = "destroyed"
  /\ \E e \in 1 .. Len(events) :
       events[e].calls = 1 /\ Len(events[e].args) = 2 /\ ~events[e].prevented

\* ------------------------------------------------------------ C21

\* the batches of instance i and kind k in the queue q, oldest first
BatchesOf(q, i, k) == SelectSeq(q, LAMBDA b : b.inst = i /\ b.kind = k)

\* the kind the last step was about: of a notifier call the kind of its type,
\* of a batch its own
KindOfStep(op) == IF op.op = "notify" THEN kindOf(op.kind) ELSE op.kind

\* C21: a call of the notifier of instance A for kind K, and every step of a
\* batch of (A, K), leaves the semaphore and the waiting batches of A's other
\* kind, and both semaphores and the waiting batches of every other instance,
\* as they are.
C21_SemaphoreIsolation ==
  [][ lastOp'.op \in {"notify", "fire", "run", "end"} =>
        \A B \in Instances, k \in Kinds :
          (B # lastOp'.inst \/ k # KindOfStep(lastOp')) =>
            /\ ctrl'[B].sem[k] = ctrl[B].sem[k]
            /\ BatchesOf(asyncQueue', B, k) = BatchesOf(asyncQueue, B, k) ]_vars

\* the notifier of instance 2 armed a batch while a batch of the same kind
\* and one of the other kind waited for instance 1 with their semaphores set
C21_Witness ==
  /\ lastOp.op = "notify" /\ lastOp.inst = 2 /\ lastOp.outcome = "armed"
  /\ ctrl[1].sem = [view |-> TRUE, content |-> TRUE]
  /\ Pending(1, "view") # {} /\ Pending(1, "content") # {}
  /\ Pending(2, kindOf(lastOp.kind)) # {}

\* ------------------------------------------------------------ C22

\* the keys a directive definition object can have
DdoKeys ==
  LegacyKeys \cup {"scope", "bindToController", "controllerAs", "templateUrl", "compile"}

\* C22: the descriptor the factory returns is the generated descriptor
\* overlaid with the legacy mapping: a key of the legacy mapping (link,
\* require, controller, template and transclude among them) has the legacy
\* value, a key the legacy mapping does not have has the generated value, or
\* the value of the shell when nothing was generated for it, and no other key
\* is there; every call of the factory returns this one object.
C22_LegacyOverlay ==
  ddo.status = "ok" =>
    LET generated == generatedDDO(meta, statics)
    IN  /\ \A k \in DdoKeys :
             IF k \in DOMAIN legacy THEN Has(ddo.obj, k, legacy[k])
             ELSE IF k \in DOMAIN generated THEN Has(ddo.obj, k, generated[k])
             ELSE IF k \in DOMAIN ddoShell THEN Has(ddo.obj, k, ddoShell[k])
             ELSE k \notin DOMAIN ddo.obj
        /\ DOMAIN ddo.obj \subseteq DdoKeys
        /\ \A k \in {"link", "require", "controller", "template", "transclude"} :
             k \in DOMAIN legacy => ddo.obj[k] = Val("legacy", k)
        /\ \A n \in DOMAIN returned : returned[n] = ddo.obj

\* the factory of a component with a templateUrl and a static link, whose
\* legacy mapping has link, require, controller, template and transclude, has
\* been called twice
C22_Witness ==
  /\ ddo.status = "ok"
  /\ meta.component /\ meta.templateUrl /\ statics.link
  /\ DOMAIN legacy = {"link", "require", "controller", "template", "transclude"}
  /\ Len(returned) = MaxCalls
  /\ returned[1].templateUrl = Val("generated", "templateUrl")
  /\ returned[2].link = Val("legacy", "link")

\* ------------------------------------------------------------ C23

\* the place of the first colon of a declaration, 0 when it has none
ColonOf(decl) ==
  IF \E p \in 1 .. Len(decl) : decl[p] = ":"
    THEN CHOOSE p \in 1 .. Len(decl) :
           decl[p] = ":" /\ \A r \in 1 .. p - 1 : decl[r] # ":"
  ELSE 0

\* a string without the blanks around it
Unpadded(str) ==
  IF \A p \in 1 .. Len(str) : str[p] = " " THEN <<>>
  ELSE LET first == CHOOSE p \in 1 .. Len(str) :
                      str[p] # " " /\ \A r \in 1 .. p - 1 : str[r] = " "
           last  == CHOOSE p \in 1 .. Len(str) :
                      str[p] # " " /\ \A r \in p + 1 .. Len(str) : str[r] = " "
       IN  SubSeq(str, first, last)

\* the name a declaration "name[:alias]" declares and the alias it gives
DeclName(decl) ==
  Unpadded(IF ColonOf(decl) = 0 THEN decl ELSE SubSeq(decl, 1, ColonOf(decl) - 1))

DeclAlias(decl) ==
  IF ColonOf(decl) = 0 THEN <<>>
  ELSE Unpadded(SubSeq(decl, ColonOf(decl) + 1, Len(decl)))

\* the categories in the order of their merge, and the tag of each
Categories == <<"inputs", "attrs", "outputs">>

TagOf(cat) ==
  CASE cat = "inputs"  -> "="
    [] cat = "attrs"   -> "@"
    [] cat = "outputs" -> "&"

\* the declarations of a name in a category of the descriptor
DeclsOf(cat, name) ==
  { n \in DOMAIN meta[cat] : DeclName(meta[cat][n]) = name }

DeclaredNames ==
  { DeclName(meta[Categories[c]][n]) :
      <<c, n>> \in { p \in (1 .. 3) \X (1 .. MaxDecl) : p[2] \in DOMAIN meta[Categories[p[1]]] } }

\* the last category that declares the name
LastCategory(name) ==
  Categories[CHOOSE c \in 1 .. 3 :
               /\ DeclsOf(Categories[c], name) # {}
               /\ \A later \in c + 1 .. 3 : DeclsOf(Categories[later], name) = {}]

\* C23: the bindings of a component have exactly the names its inputs, attrs
\* and outputs declare as keys; a name is mapped to the tag of its category
\* ('=' inputs, '@' attrs, '&' outputs) followed by the trimmed alias of its
\* declaration, nothing when it gives none; of a name declared in more than
\* one category the entry is that of the later one in the order inputs,
\* attrs, outputs.
C23_BindingSynthesis ==
  (ddo.status = "ok" /\ meta.component) =>
    /\ DOMAIN ddo.bindToController = DeclaredNames
    /\ \A name \in DeclaredNames :
         LET cat == LastCategory(name)
         IN  \E n \in DeclsOf(cat, name) :
               ddo.bindToController[name] = <<TagOf(cat)>> \o DeclAlias(meta[cat][n])

\* a component is compiled whose input a has a padded alias and whose output
\* a has none, and whose attr b has the alias x
C23_Witness ==
  /\ ddo.status = "ok" /\ meta.component
  /\ meta.inputs = << <<" ", "a", " ", ":", " ", "y", " ">> >>
  /\ meta.attrs = << <<"b", ":", "x">>, <<"a", ":", "x">> >>
  /\ meta.outputs = << <<"a">> >>
  /\ ddo.bindToController[<<"a">>] = <<"&">>
  /\ ddo.bindToController[<<"b">>] = <<"@", "x">>

\* ------------------------------------------------------------ C24

\* the callbacks the task has invoked are items of the array it was given
InvokedAreSupplied(t) ==
  \A p \in DOMAIN t.ran :
    t.ran[p].t = "cb" =>
      /\ t.ran[p].n \in DOMAIN t.cbs
      /\ t.cbs[t.ran[p].n] = t.ran[p].name

\* C24: the callbacks of a call of the notifier that is absorbed go nowhere:
\* the call leaves every waiting batch and the running task as they are.  A
\* batch is armed with the callbacks of the call that arms it, keeps them
\* while it waits, hands them to its task when it fires, and the task invokes
\* items of that array only.
C24_AbsorbedCallbacksDropped ==
  /\ [][ /\ (lastOp'.op = "notify" /\ lastOp'.outcome = "absorbed")
              => asyncQueue' = asyncQueue /\ task' = task
         /\ \A i \in Instances, type \in ChildrenChangeHook, cbs \in CallbackChoices :
              (Notify(i, type, cbs) /\ lastOp'.outcome = "armed")
                => asyncQueue' = Append(asyncQueue, Batch(i, kindOf(type), cbs))
         /\ lastOp'.op # "fire" => IsPrefix(asyncQueue, asyncQueue')
         /\ lastOp'.op = "fire"
              => asyncQueue' = Tail(asyncQueue) /\ task'.cbs = Head(asyncQueue).cbs
         /\ lastOp'.op = "run" => task'.cbs = task.cbs ]_vars
  /\ [](InvokedAreSupplied(task))

\* while the task of one kind runs and has invoked a callback, a call for the
\* other kind, whose batch waits with callbacks of its own, was absorbed
C24_Witness ==
  /\ lastOp.op = "notify" /\ lastOp.outcome = "absorbed"
  /\ task # NoTask /\ task.inst = lastOp.inst /\ task.kind # kindOf(lastOp.kind)
  /\ \E p \in DOMAIN task.ran : task.ran[p].t = "cb"
  /\ \E n \in 1 .. Len(asyncQueue) :
       /\ asyncQueue[n].inst = lastOp.inst
       /\ asyncQueue[n].kind = kindOf(lastOp.kind)
       /\ FunctionsOf(asyncQueue[n].cbs) # <<>>

\* ------------------------------------------------------------ C25

\* the batch postLink arms for instance i and kind k: its callbacks are the
\* hooks of that level
PostLinkBatch(i, k) ==
  [inst |-> i, kind |-> k,
   cbs  |-> IF k = "view" THEN viewCallbacks(meta) ELSE contentCallbacks(meta)]

Waits(b) == \E n \in 1 .. Len(asyncQueue) : asyncQueue[n] = b

Runs(b) == task.inst = b.inst /\ task.kind = b.kind /\ task.cbs = b.cbs

HookAt(i, p, h) == trace[i][p] = Ev("hook", h, 0)

\* C25: a component's postLink with queries arms the FromView batch and then
\* the FromContent batch; while the FromView batch of postLink runs the
\* FromContent batch of the same postLink still waits, and when that one is
\* taken from the queue the FromView batch neither waits nor runs.  Without
\* queries an after-content-init of the trace comes after the after-view-init
\* of the instance.
C25_ViewInitBeforeContentInit ==
  /\ [][ /\ \A i \in Instances :
              ( /\ lastOp'.op = "postLink" /\ lastOp'.inst = i /\ lastOp'.outcome = "ok"
                /\ meta.component /\ Len(meta.queries) > 0 )
                => asyncQueue' = asyncQueue \o
                     <<PostLinkBatch(i, "view"), PostLinkBatch(i, "content")>>
         /\ ( /\ lastOp'.op = "fire" /\ meta.component
              /\ Head(asyncQueue) = PostLinkBatch(lastOp'.inst, "content") )
              => /\ ~Waits(PostLinkBatch(lastOp'.inst, "view"))
                 /\ task = NoTask ]_vars
  /\ [](\A i \in Instances :
          /\ (meta.component /\ task # NoTask /\ Runs(PostLinkBatch(i, "view")))
               => Waits(PostLinkBatch(i, "content"))
          /\ (meta.component /\ Len(meta.queries) = 0 /\ ngAfterViewInit \in meta.hooks)
               => \A p \in DOMAIN trace[i] :
                    HookAt(i, p, ngAfterContentInit)
                      => \E r \in 1 .. p - 1 : HookAt(i, r, ngAfterViewInit))

\* the FromContent batch of a component's postLink has invoked
\* after-content-init; the component has queries of both levels and the
\* after-view-init hook
C25_Witness ==
  /\ meta.component /\ task # NoTask
  /\ Runs(PostLinkBatch(task.inst, "content"))
  /\ {ngAfterViewInit, ngAfterContentInit} \subseteq meta.hooks
  /\ ResolversOf("view") # <<>> /\ ResolversOf("content") # <<>>
  /\ \E p \in DOMAIN task.ran :
       task.ran[p].t = "cb" /\ task.ran[p].name = ngAfterContentInit

\* ------------------------------------------------------------ C26

\* the places of the trace of instance i where parent-checked notifier n is
\* invoked
NotifierPlaces(i, n) == PlacesOf(i, Ev("parentNotifier", "", n))

\* the batches postLink arms
ArmedByPostLink ==
  IF Len(meta.queries) = 0 THEN 0 ELSE IF meta.component THEN 2 ELSE 1

\* the invocations of a notifier postLink has to make
DuringPostLink == IF Len(meta.queries) = 0 THEN 1 ELSE ArmedByPostLink

\* postLink has invoked notifier n as said: with queries once for each batch,
\* before the call that arms it; without queries once, before the init hooks
InvokedByPostLink(i, n) ==
  LET linkPlaces == { p \in NotifierPlaces(i, n) :
                        \A h \in PlacesNamed(i, "destroyHandler") : p < h }
  IN  /\ Cardinality(linkPlaces) = DuringPostLink
      /\ Cardinality(PlacesNamed(i, "schedule")) = ArmedByPostLink
      /\ \A s \in PlacesNamed(i, "schedule") :
           Cardinality({p \in linkPlaces : p < s})
             = Cardinality({r \in PlacesNamed(i, "schedule") : r <= s})
      /\ \A h \in PlacesOf(i, Ev("hook", ngAfterViewInit, 0))
                    \cup PlacesOf(i, Ev("hook", ngAfterContentInit, 0)),
            p \in linkPlaces : p < h

\* the $destroy handler has invoked notifier n once more
InvokedAtDestroy(i, n) ==
  /\ Cardinality(NotifierPlaces(i, n)) = DuringPostLink + 1
  /\ Cardinality({ p \in NotifierPlaces(i, n) :
                     \E h \in PlacesNamed(i, "destroyHandler") : h < p }) = 1

\* no batch has a function for the value of parentCheckedNotifiers.forEach
NoNotifierInBatch ==
  /\ \A b \in 1 .. Len(asyncQueue) :
       asyncQueue[b].cbs # <<>> => ~isFunction(asyncQueue[b].cbs[1])
  /\ \A p \in DOMAIN task.ran : task.ran[p].t = "cb" => task.ran[p].n # 1

ParentNotifiers(i) ==
  /\ phase[i] \in {"linked", "crashed", "destroyed"}
       => \A n \in 1 .. meta.requires : InvokedByPostLink(i, n)
  /\ phase[i] \in {"linked", "crashed"}
       => \A n \in 1 .. meta.requires :
            Cardinality(NotifierPlaces(i, n)) = DuringPostLink
  /\ phase[i] = "destroyed"
       => \A n \in 1 .. meta.requires : InvokedAtDestroy(i, n)

\* C26: postLink invokes each parent-checked notifier of the instance itself:
\* with queries once for each batch it arms (two for a component, one for a
\* directive), before it arms the batch, without queries once, before the init
\* hooks; no batch invokes one; and the $destroy handler invokes each once more.
C26_ParentNotifiers ==
  /\ NoNotifierInBatch
  /\ \A i \in Instances : ParentNotifiers(i)

\* the same, of the descriptors that supply a host mapping
C26_ParentNotifiersWithHost ==
  /\ NoNotifierInBatch
  /\ \A i \in Instances : meta.hasHost => ParentNotifiers(i)

\* a component with queries, a required controller and no host mapping was
\* linked and destroyed: its notifier was never invoked
C26_Witness ==
  \E i \in Instances :
    /\ phase[i] = "destroyed" /\ ~meta.hasHost
    /\ meta.component /\ Len(meta.queries) > 0 /\ meta.requires = 1
    /\ NotifierPlaces(i, 1) = {}

\* a component with queries, a required controller and a host mapping was
\* linked and destroyed: its notifier was invoked twice by postLink and once
\* by the $destroy handler
C26_WitnessWithHost ==
  \E i \in Instances :
    /\ phase[i] = "destroyed" /\ meta.hasHost
    /\ meta.component /\ Len(meta.queries) > 0 /\ meta.requires = 1
    /\ Cardinality(NotifierPlaces(i, 1)) = 3

====
